---- MODULE Spec2Model ----
(***************************************************************************)
(* Model of the stock analyzer's scoring-and-cache subsystem: the SQLite   *)
(* cache of data/database.py, the read-through fetcher of                  *)
(* core/data_fetcher.py, the rule engines of core/fundamental_analysis.py  *)
(* and core/technical_analysis.py, and the combiner of core/analyzer.py.   *)
(*                                                                         *)
(* Conventions.                                                            *)
(*  - Python values are tagged records: PyNone, Num(n), Str(s), Dict(f).   *)
(*  - Metric numbers are fixed point, n = value * 1000.                    *)
(*  - Scores are counted in half points (every weight and flat score of    *)
(*    the program is a multiple of 0.5): Pts(3) is the score 3.0.          *)
(*  - Time is counted in ticks, TicksPerDay of them to a day.              *)
(***************************************************************************)
EXTENDS Integers, Sequences, FiniteSets, TLC

VARIABLES
    now,               \* the wall clock read by datetime.now()
    stock_prices,      \* table stock_prices: a set of rows
    fundamentals,      \* table fundamentals: a set of rows
    analysis_results,  \* table analysis_results: rows in insertion (id) order
    analyzer,          \* the fields of one StockAnalyzer object
    connections,       \* per process: its place inside a get_stock_prices call
    args,              \* the arguments of the last call
    ret                \* what the last call returned or raised

vars == <<now, stock_prices, fundamentals, analysis_results, analyzer, connections,
          args, ret>>

(***************************************************************************)
(* Bounds of the model.                                                    *)
(***************************************************************************)
MaxTime == 2
TicksPerDay == 1
MaxHistory == 1
MaxRecords == 3

(***************************************************************************)
(* Program constants.                                                      *)
(***************************************************************************)
CACHE_EXPIRY_DAYS == 1

Pts(n) == 2 * n

(***************************************************************************)
(* Python values.                                                          *)
(***************************************************************************)
PyNone == [py |-> "None"]
Num(n) == [py |-> "num", n |-> n]
Str(s) == [py |-> "str", s |-> s]
Dict(items) == [py |-> "dict", items |-> items]
EmptyDict == Dict(<< >>)

\* bool(v): the truth value Python gives v in `if v`
Truthy(v) ==
    CASE v.py = "None" -> FALSE
      [] v.py = "num" -> v.n # 0
      [] v.py = "str" -> v.s # ""
      [] v.py = "dict" -> DOMAIN v.items # {}
      [] v.py = "DataFrame" -> TRUE
      [] OTHER -> TRUE

\* isinstance(v, (int, float))
IsNumber(v) == v.py = "num"

(***************************************************************************)
(* Price data.  A DataFrame is named by the series it holds (rows), the    *)
(* kind of its index and the kind of the values of its dates.  The series  *)
(* "empty" has no rows.                                                    *)
(***************************************************************************)
SeriesIds == {"uptrend", "downtrend"}

DataFrame(rows, index, dates) ==
    [py |-> "DataFrame", rows |-> rows, index |-> index, dates |-> dates]

df_empty(df) == df.rows = "empty"

\* data.reset_index().to_dict('records'): the index becomes the column Date,
\* whose values keep their type (pandas.Timestamp for a DatetimeIndex)
to_records(df) == [py |-> "records", rows |-> df.rows, dates |-> df.dates]

\* the cache_data dictionary of fetch_historical_data
cache_data(df, period) ==
    Dict([historical |-> to_records(df), period |-> Str(period)])

\* pd.DataFrame(cached_data['historical']) with df.index = pd.to_datetime(df.index):
\* the dates are a column of strings and the index counts from the epoch
from_records(recs) == DataFrame(recs.rows, "to_datetime(RangeIndex)", recs.dates)

(***************************************************************************)
(* JSON.  A text is [wf, json]: json is the encoded value, wf is FALSE for *)
(* a text that json.loads cannot parse.                                    *)
(***************************************************************************)
\* whether json.dumps accepts the value (it raises TypeError otherwise)
RECURSIVE serializable(_)
serializable(v) ==
    CASE v.py = "None" -> TRUE
      [] v.py = "num" -> TRUE
      [] v.py = "str" -> TRUE
      [] v.py = "records" -> v.dates # "Timestamp"
      [] v.py = "dict" -> \A k \in DOMAIN v.items : serializable(v.items[k])
      [] OTHER -> FALSE

RECURSIVE json_encode(_)
json_encode(v) ==
    CASE v.py = "None" -> [js |-> "null"]
      [] v.py = "num" -> [js |-> "number", n |-> v.n]
      [] v.py = "str" -> [js |-> "string", s |-> v.s]
      [] v.py = "records" -> [js |-> "array", rows |-> v.rows, dates |-> v.dates]
      [] v.py = "dict" ->
            [js |-> "object", members |-> [k \in DOMAIN v.items |-> json_encode(v.items[k])]]

RECURSIVE json_decode(_)
json_decode(j) ==
    CASE j.js = "null" -> PyNone
      [] j.js = "number" -> Num(j.n)
      [] j.js = "string" -> Str(j.s)
      [] j.js = "array" -> [py |-> "records", rows |-> j.rows, dates |-> j.dates]
      [] j.js = "object" ->
            Dict([k \in DOMAIN j.members |-> json_decode(j.members[k])])

\* json.dumps(data): [raised, text]
json_dumps(data) ==
    IF serializable(data)
    THEN [raised |-> "", text |-> [wf |-> TRUE, json |-> json_encode(data)]]
    ELSE [raised |-> "TypeError", text |-> [wf |-> FALSE, json |-> [js |-> "null"]]]

\* json.loads(text): [raised, value]
json_loads(text) ==
    IF text.wf
    THEN [raised |-> "", value |-> json_decode(text.json)]
    ELSE [raised |-> "JSONDecodeError", value |-> PyNone]

(***************************************************************************)
(* DatabaseManager.                                                        *)
(***************************************************************************)
RawTickers == {"AAPL", "aapl", "MSFT"}

FundamentalsTickers == {"AAPL", "aapl"}

\* str.upper() on the tickers of the model
Upper(t) == IF t = "aapl" THEN "AAPL" ELSE t

\* SELECT ... WHERE ticker = ?
Select(table, key) == {r \in table : r.ticker = key}

\* cursor.fetchone(): a row, or PyNone when there is none
FetchOne(rows) == IF rows = {} THEN PyNone ELSE CHOOSE r \in rows : TRUE

\* DELETE FROM table WHERE ticker = ?
DeleteWhere(table, key) == {r \in table : r.ticker # key}

\* a plain INSERT that keeps the row in conflict
InsertKeepingConflict(table, row) == table \cup {row}

\* INSERT OR REPLACE INTO table (ticker, data, expiry_date): ticker is the
\* PRIMARY KEY, so the row in conflict is deleted before the insert
InsertOrReplace(table, row) == DeleteWhere(table, row.ticker) \cup {row}

\* expiry tested with >= in place of >
is_expired_at_expiry(expiry_date) == now >= expiry_date

_is_expired(expiry_date) == now > expiry_date

\* datetime.now() + timedelta(days=CACHE_EXPIRY_DAYS)
expiry_from_now == now + CACHE_EXPIRY_DAYS * TicksPerDay

\* a delete that forgets ticker.upper()
delete_as_given(table, ticker) == DeleteWhere(table, ticker)

\* delete_stock_prices / delete_fundamentals: the table afterwards
delete_stock_prices(table, ticker) == DeleteWhere(table, Upper(ticker))

delete_fundamentals(table, ticker) == DeleteWhere(table, Upper(ticker))

\* a get whose purge of an expired entry empties the table
get_purging_the_table(table, ticker) ==
    LET result == FetchOne(Select(table, Upper(ticker))) IN
    IF result # PyNone /\ ~_is_expired(result.expiry_date)
    THEN LET loaded == json_loads(result.data) IN
         [table |-> table, raised |-> loaded.raised, value |-> loaded.value]
    ELSE [table |-> IF result # PyNone THEN {} ELSE table,
          raised |-> "", value |-> PyNone]

\* get_stock_prices(ticker) on a table: [table, raised, value]
get_stock_prices(table, ticker) ==
    LET result == FetchOne(Select(table, Upper(ticker))) IN
    IF result # PyNone /\ ~_is_expired(result.expiry_date)
    THEN LET loaded == json_loads(result.data) IN
         [table |-> table, raised |-> loaded.raised, value |-> loaded.value]
    ELSE [table |-> IF result # PyNone THEN delete_stock_prices(table, ticker) ELSE table,
          raised |-> "", value |-> PyNone]

\* get_fundamentals(ticker) on a table: [table, raised, value]
get_fundamentals(table, ticker) ==
    LET result == FetchOne(Select(table, Upper(ticker))) IN
    IF result # PyNone /\ ~_is_expired(result.expiry_date)
    THEN LET loaded == json_loads(result.data) IN
         [table |-> table, raised |-> loaded.raised, value |-> loaded.value]
    ELSE [table |-> IF result # PyNone THEN delete_fundamentals(table, ticker) ELSE table,
          raised |-> "", value |-> PyNone]

\* save_stock_prices(ticker, data) on a table: [table, raised]
save_stock_prices(table, ticker, data) ==
    LET dumped == json_dumps(data) IN
    IF dumped.raised # ""
    THEN [table |-> table, raised |-> dumped.raised]
    ELSE [table |-> InsertOrReplace(table,
                        [ticker |-> Upper(ticker), data |-> dumped.text,
                         expiry_date |-> expiry_from_now]),
          raised |-> ""]

\* a save that forgets ticker.upper()
save_as_given(table, ticker, data) ==
    LET dumped == json_dumps(data) IN
    IF dumped.raised # ""
    THEN [table |-> table, raised |-> dumped.raised]
    ELSE [table |-> InsertOrReplace(table,
                        [ticker |-> ticker, data |-> dumped.text,
                         expiry_date |-> expiry_from_now]),
          raised |-> ""]

\* save_fundamentals(ticker, data) on a table: [table, raised]
save_fundamentals(table, ticker, data) ==
    LET dumped == json_dumps(data) IN
    IF dumped.raised # ""
    THEN [table |-> table, raised |-> dumped.raised]
    ELSE [table |-> InsertOrReplace(table,
                        [ticker |-> Upper(ticker), data |-> dumped.text,
                         expiry_date |-> expiry_from_now]),
          raised |-> ""]

\* get_cache_stats()
get_cache_stats ==
    [stock_prices |-> Cardinality(stock_prices),
     fundamentals |-> Cardinality(fundamentals),
     analysis_results |-> Len(analysis_results)]

(***************************************************************************)
(* The data provider (yfinance) and the payloads the program builds.       *)
(***************************************************************************)
\* info.get(key, default)
InfoGet(info, key, default) ==
    IF key \in DOMAIN info.items THEN info.items[key] ELSE default

\* the dictionary fetch_fundamentals fills from stock.info (the entries the
\* scoring core reads)
fundamentals_from_info(info) ==
    Dict([Sector |-> InfoGet(info, "sector", Str("N/A")),
          Industry |-> InfoGet(info, "industry", Str("N/A")),
          Country |-> InfoGet(info, "country", Str("N/A")),
          PE_Ratio |-> InfoGet(info, "trailingPE", PyNone),
          PEG_Ratio |-> InfoGet(info, "pegRatio", PyNone),
          ROE |-> InfoGet(info, "returnOnEquity", PyNone),
          Profit_Margin |-> InfoGet(info, "profitMargins", PyNone),
          Revenue_Growth |-> InfoGet(info, "revenueGrowth", PyNone),
          Debt_to_Equity |-> InfoGet(info, "debtToEquity", PyNone),
          Current_Ratio |-> InfoGet(info, "currentRatio", PyNone),
          Free_Cash_Flow |-> InfoGet(info, "freeCashflow", PyNone),
          Market_Cap |-> InfoGet(info, "marketCap", PyNone)])

\* stock.info of four companies (numbers are value * 1000)
InfoStrong ==
    Dict([sector |-> Str("Technology"), industry |-> Str("Software"),
          country |-> Str("United States"),
          trailingPE |-> Num(15000), pegRatio |-> Num(1000),
          returnOnEquity |-> Num(250), profitMargins |-> Num(200),
          revenueGrowth |-> Num(200), debtToEquity |-> Num(20000),
          currentRatio |-> Num(2500), freeCashflow |-> Num(100000),
          marketCap |-> Num(1000000), currentPrice |-> Num(150000)])

InfoBorderline ==
    Dict([sector |-> Str("Technology"), industry |-> Str("Hardware"),
          country |-> Str("France"),
          debtToEquity |-> Num(200000), currentRatio |-> Num(800),
          regularMarketPrice |-> Num(42000)])

InfoConcerning ==
    Dict([sector |-> Str("Biotech"), country |-> Str("Atlantis"),
          trailingPE |-> Num(60000), pegRatio |-> Num(3000)])

InfoWeak ==
    Dict([sector |-> Str("Technology"), industry |-> Str("Hardware"),
          country |-> Str("United States"),
          trailingPE |-> Num(60000), pegRatio |-> Num(3000),
          returnOnEquity |-> Num(50), profitMargins |-> Num(10),
          revenueGrowth |-> Num(-50), debtToEquity |-> Num(200000),
          currentRatio |-> Num(800), freeCashflow |-> Num(-5000),
          marketCap |-> Num(1000000), currentPrice |-> Num(3000)])

Infos == {InfoStrong, InfoBorderline, InfoConcerning, InfoWeak}

\* the periods asked of stock.history
Periods == {"1y", "1d"}

\* stock.history(period): an exception, a frame without rows, or a frame of
\* rows under a DatetimeIndex whose dates are Timestamp objects or strings
HistoriesOf(series) ==
    {[raised |-> "Exception", value |-> PyNone],
     [raised |-> "", value |-> DataFrame("empty", "DatetimeIndex", "Timestamp")]}
    \cup {[raised |-> "", value |-> DataFrame(s, "DatetimeIndex", d)] :
            s \in series, d \in {"Timestamp", "str"}}

(***************************************************************************)
(* SectorBenchmarks.  Thresholds are value * 1000, weights are counted in  *)
(* half points, geographic factors are value * 100.                        *)
(***************************************************************************)
get_benchmarks ==
    "Technology" :>
        [pe_low |-> 20000, pe_high |-> 35000, pe_very_high |-> 50000,
         peg_good |-> 1500, peg_acceptable |-> 2500,
         debt_low |-> 30000, debt_moderate |-> 80000, debt_high |-> 150000,
         roe_excellent |-> 18000, roe_good |-> 12000, roe_acceptable |-> 8000,
         revenue_growth_strong |-> 12000, revenue_growth_good |-> 6000,
         margin_excellent |-> 15000, margin_good |-> 8000, margin_acceptable |-> 3000,
         weights |-> [pe |-> 2, peg |-> 5, debt |-> 1, roe |-> 4, growth |-> 6, margin |-> 6]]
    @@
    "Financial Services" :>
        [pe_low |-> 12000, pe_high |-> 18000, pe_very_high |-> 25000,
         peg_good |-> 1000, peg_acceptable |-> 1800,
         debt_low |-> 100000, debt_moderate |-> 300000, debt_high |-> 500000,
         roe_excellent |-> 15000, roe_good |-> 10000, roe_acceptable |-> 7000,
         revenue_growth_strong |-> 8000, revenue_growth_good |-> 4000,
         margin_excellent |-> 25000, margin_good |-> 15000, margin_acceptable |-> 10000,
         weights |-> [pe |-> 3, peg |-> 1, debt |-> 1, roe |-> 8, growth |-> 3, margin |-> 8]]
    @@
    "Healthcare" :>
        [pe_low |-> 15000, pe_high |-> 25000, pe_very_high |-> 40000,
         peg_good |-> 1200, peg_acceptable |-> 2000,
         debt_low |-> 40000, debt_moderate |-> 90000, debt_high |-> 180000,
         roe_excellent |-> 20000, roe_good |-> 14000, roe_acceptable |-> 10000,
         revenue_growth_strong |-> 10000, revenue_growth_good |-> 5000,
         margin_excellent |-> 20000, margin_good |-> 12000, margin_acceptable |-> 6000,
         weights |-> [pe |-> 3, peg |-> 3, debt |-> 3, roe |-> 5, growth |-> 4, margin |-> 6]]
    @@
    "Consumer Cyclical" :>
        [pe_low |-> 12000, pe_high |-> 20000, pe_very_high |-> 30000,
         peg_good |-> 1000, peg_acceptable |-> 1800,
         debt_low |-> 50000, debt_moderate |-> 120000, debt_high |-> 200000,
         roe_excellent |-> 18000, roe_good |-> 12000, roe_acceptable |-> 8000,
         revenue_growth_strong |-> 10000, revenue_growth_good |-> 5000,
         margin_excellent |-> 12000, margin_good |-> 7000, margin_acceptable |-> 3000,
         weights |-> [pe |-> 4, peg |-> 3, debt |-> 4, roe |-> 4, growth |-> 5, margin |-> 4]]
    @@
    "Consumer Defensive" :>
        [pe_low |-> 15000, pe_high |-> 22000, pe_very_high |-> 30000,
         peg_good |-> 1200, peg_acceptable |-> 2000,
         debt_low |-> 50000, debt_moderate |-> 100000, debt_high |-> 180000,
         roe_excellent |-> 25000, roe_good |-> 18000, roe_acceptable |-> 12000,
         revenue_growth_strong |-> 7000, revenue_growth_good |-> 3000,
         margin_excellent |-> 15000, margin_good |-> 9000, margin_acceptable |-> 5000,
         weights |-> [pe |-> 3, peg |-> 1, debt |-> 4, roe |-> 7, growth |-> 2, margin |-> 7]]
    @@
    "Energy" :>
        [pe_low |-> 8000, pe_high |-> 15000, pe_very_high |-> 25000,
         peg_good |-> 800, peg_acceptable |-> 1500,
         debt_low |-> 40000, debt_moderate |-> 100000, debt_high |-> 180000,
         roe_excellent |-> 15000, roe_good |-> 10000, roe_acceptable |-> 5000,
         revenue_growth_strong |-> 15000, revenue_growth_good |-> 8000,
         margin_excellent |-> 15000, margin_good |-> 8000, margin_acceptable |-> 3000,
         weights |-> [pe |-> 2, peg |-> 2, debt |-> 5, roe |-> 5, growth |-> 4, margin |-> 6]]
    @@
    "Industrials" :>
        [pe_low |-> 12000, pe_high |-> 20000, pe_very_high |-> 30000,
         peg_good |-> 1200, peg_acceptable |-> 2000,
         debt_low |-> 50000, debt_moderate |-> 120000, debt_high |-> 200000,
         roe_excellent |-> 16000, roe_good |-> 11000, roe_acceptable |-> 7000,
         revenue_growth_strong |-> 10000, revenue_growth_good |-> 5000,
         margin_excellent |-> 12000, margin_good |-> 7000, margin_acceptable |-> 3000,
         weights |-> [pe |-> 3, peg |-> 3, debt |-> 5, roe |-> 5, growth |-> 4, margin |-> 4]]
    @@
    "Real Estate" :>
        [pe_low |-> 15000, pe_high |-> 25000, pe_very_high |-> 35000,
         peg_good |-> 1500, peg_acceptable |-> 2500,
         debt_low |-> 80000, debt_moderate |-> 200000, debt_high |-> 350000,
         roe_excellent |-> 12000, roe_good |-> 8000, roe_acceptable |-> 5000,
         revenue_growth_strong |-> 8000, revenue_growth_good |-> 4000,
         margin_excellent |-> 40000, margin_good |-> 25000, margin_acceptable |-> 15000,
         weights |-> [pe |-> 1, peg |-> 1, debt |-> 2, roe |-> 5, growth |-> 3, margin |-> 12]]
    @@
    "Materials" :>
        [pe_low |-> 10000, pe_high |-> 18000, pe_very_high |-> 28000,
         peg_good |-> 1000, peg_acceptable |-> 1800,
         debt_low |-> 45000, debt_moderate |-> 110000, debt_high |-> 190000,
         roe_excellent |-> 14000, roe_good |-> 9000, roe_acceptable |-> 5000,
         revenue_growth_strong |-> 12000, revenue_growth_good |-> 6000,
         margin_excellent |-> 14000, margin_good |-> 8000, margin_acceptable |-> 3000,
         weights |-> [pe |-> 3, peg |-> 2, debt |-> 4, roe |-> 5, growth |-> 5, margin |-> 5]]
    @@
    "Utilities" :>
        [pe_low |-> 12000, pe_high |-> 20000, pe_very_high |-> 28000,
         peg_good |-> 1500, peg_acceptable |-> 2500,
         debt_low |-> 100000, debt_moderate |-> 250000, debt_high |-> 400000,
         roe_excellent |-> 12000, roe_good |-> 8000, roe_acceptable |-> 5000,
         revenue_growth_strong |-> 5000, revenue_growth_good |-> 2000,
         margin_excellent |-> 20000, margin_good |-> 12000, margin_acceptable |-> 6000,
         weights |-> [pe |-> 3, peg |-> 1, debt |-> 3, roe |-> 6, growth |-> 1, margin |-> 10]]
    @@
    "Communication Services" :>
        [pe_low |-> 15000, pe_high |-> 25000, pe_very_high |-> 40000,
         peg_good |-> 1200, peg_acceptable |-> 2000,
         debt_low |-> 50000, debt_moderate |-> 130000, debt_high |-> 220000,
         roe_excellent |-> 20000, roe_good |-> 13000, roe_acceptable |-> 8000,
         revenue_growth_strong |-> 12000, revenue_growth_good |-> 6000,
         margin_excellent |-> 18000, margin_good |-> 10000, margin_acceptable |-> 4000,
         weights |-> [pe |-> 3, peg |-> 4, debt |-> 3, roe |-> 5, growth |-> 5, margin |-> 4]]

get_geographic_adjustments ==
    "United States" :>
        [pe_factor |-> 100, debt_factor |-> 100, growth_factor |-> 100]
    @@
    "China" :>
        [pe_factor |-> 80, debt_factor |-> 130, growth_factor |-> 130]
    @@
    "Europe" :>
        [pe_factor |-> 85, debt_factor |-> 110, growth_factor |-> 90]
    @@
    "Japan" :>
        [pe_factor |-> 75, debt_factor |-> 120, growth_factor |-> 80]
    @@
    "Emerging Markets" :>
        [pe_factor |-> 70, debt_factor |-> 140, growth_factor |-> 140]

(***************************************************************************)
(* FundamentalAnalyzer.  A signal is [desc, delta, sentiment]; the numbers *)
(* formatted into the descriptions are left out, and accents are dropped.  *)
(***************************************************************************)
Signal(desc, delta, sentiment) == [desc |-> desc, delta |-> delta, sentiment |-> sentiment]

\* dict.get(key): PyNone when the key is missing
DictGet(d, key) == IF key \in DOMAIN d.items THEN d.items[key] ELSE PyNone

\* dict.get(key, default)
DictGetOr(d, key, default) == IF key \in DOMAIN d.items THEN d.items[key] ELSE default

\* `x if x and x != 'N/A' else 'Unknown'`
OrUnknown(v) == IF Truthy(v) /\ v # Str("N/A") THEN v.s ELSE "Unknown"

\* a classification that puts the countries it does not name in Europe
zone_defaulting_to_europe(country) ==
    IF country \in {"United States", "USA"} THEN "United States"
    ELSE IF country \in {"China", "Hong Kong"} THEN "China"
    ELSE IF country = "Japan" THEN "Japan"
    ELSE IF country \in {"India", "Brazil", "Mexico", "South Africa", "Indonesia",
                         "Turkey", "Thailand", "Malaysia", "Philippines"}
         THEN "Emerging Markets"
    ELSE "Europe"

_determine_geographic_zone(country) ==
    IF country \in {"United States", "USA"} THEN "United States"
    ELSE IF country \in {"France", "Germany", "United Kingdom", "Italy", "Spain",
                         "Netherlands", "Belgium", "Switzerland", "Sweden", "Norway"}
         THEN "Europe"
    ELSE IF country \in {"China", "Hong Kong"} THEN "China"
    ELSE IF country = "Japan" THEN "Japan"
    ELSE IF country \in {"India", "Brazil", "Mexico", "South Africa", "Indonesia",
                         "Turkey", "Thailand", "Malaysia", "Philippines"}
         THEN "Emerging Markets"
    ELSE "United States"

\* an analyzer whose unknown sectors get the benchmarks of Healthcare
analyzer_defaulting_to_healthcare(fundamentals_, sector, industry, country) ==
    LET sector_ == OrUnknown(sector)
        country_ == OrUnknown(country)
        zone == _determine_geographic_zone(country_)
    IN  [fundamentals |-> fundamentals_,
         sector |-> sector_,
         industry |-> OrUnknown(industry),
         country |-> country_,
         benchmarks |-> IF sector_ \in DOMAIN get_benchmarks
                        THEN get_benchmarks[sector_]
                        ELSE get_benchmarks["Healthcare"],
         geographic_zone |-> zone,
         geo_adj |-> get_geographic_adjustments[zone]]

\* FundamentalAnalyzer.__init__
FundamentalAnalyzer(fundamentals_, sector, industry, country) ==
    LET sector_ == OrUnknown(sector)
        country_ == OrUnknown(country)
        zone == _determine_geographic_zone(country_)
    IN  [fundamentals |-> fundamentals_,
         sector |-> sector_,
         industry |-> OrUnknown(industry),
         country |-> country_,
         benchmarks |-> IF sector_ \in DOMAIN get_benchmarks
                        THEN get_benchmarks[sector_]
                        ELSE get_benchmarks["Technology"],
         geographic_zone |-> zone,
         geo_adj |-> IF zone \in DOMAIN get_geographic_adjustments
                     THEN get_geographic_adjustments[zone]
                     ELSE get_geographic_adjustments["United States"]]

NoSignals == [score |-> 0, signals |-> << >>]

\* one rule that fired: its signal and its contribution to the score
Fired(desc, delta, sentiment) ==
    [score |-> delta, signals |-> <<Signal(desc, delta, sentiment)>>]

\* two rules of one group, in order
Both(a, b) == [score |-> a.score + b.score, signals |-> a.signals \o b.signals]

analyze_valuation(self) ==
    LET w == self.benchmarks.weights
        pe == DictGet(self.fundamentals, "PE_Ratio")
        peg == DictGet(self.fundamentals, "PEG_Ratio")
        pe_rule ==
            IF Truthy(pe) /\ IsNumber(pe) /\ pe.n > 0
            THEN LET pe_low == self.benchmarks.pe_low * self.geo_adj.pe_factor
                     pe_high == self.benchmarks.pe_high * self.geo_adj.pe_factor
                     pe_very_high == self.benchmarks.pe_very_high * self.geo_adj.pe_factor
                 IN  IF pe.n * 100 < pe_low
                     THEN Fired("P/E - Sous-evaluation", 2 * w.pe, "Positif")
                     ELSE IF pe.n * 100 < pe_high
                     THEN Fired("P/E - Correct", 1 * w.pe, "Positif")
                     ELSE IF pe.n * 100 > pe_very_high
                     THEN Fired("P/E - Survalorisation", (-2) * w.pe, "Negatif")
                     ELSE NoSignals
            ELSE NoSignals
        peg_rule ==
            IF Truthy(peg) /\ IsNumber(peg) /\ peg.n > 0
            THEN IF peg.n < self.benchmarks.peg_good
                 THEN Fired("PEG - Croissance attractive", 2 * w.peg, "Positif")
                 ELSE IF peg.n > self.benchmarks.peg_acceptable
                 THEN Fired("PEG - Croissance chere", (-1) * w.peg, "Negatif")
                 ELSE NoSignals
            ELSE NoSignals
    IN  Both(pe_rule, peg_rule)

\* a debt analysis that scores a debt-to-equity that is not a number as 0
debt_scoring_missing_as_zero(self) ==
    LET w == self.benchmarks.weights
        given == DictGet(self.fundamentals, "Debt_to_Equity")
        dte == IF IsNumber(given) THEN given ELSE Num(0)
        current_ratio == DictGet(self.fundamentals, "Current_Ratio")
        dte_rule ==
            IF IsNumber(dte)
            THEN LET debt_low == self.benchmarks.debt_low * self.geo_adj.debt_factor
                     debt_mod == self.benchmarks.debt_moderate * self.geo_adj.debt_factor
                     debt_high == self.benchmarks.debt_high * self.geo_adj.debt_factor
                 IN  IF dte.n * 100 < debt_low
                     THEN Fired("Dette - Tres solide", 2 * w.debt, "Positif")
                     ELSE IF dte.n * 100 < debt_mod
                     THEN Fired("Dette - Modere", 0, "Neutre")
                     ELSE IF dte.n * 100 < debt_high
                     THEN Fired("Dette - Eleve", (-1) * w.debt, "Negatif")
                     ELSE Fired("Dette - Tres eleve", (-3) * w.debt, "Negatif")
            ELSE NoSignals
        ratio_rule ==
            IF Truthy(current_ratio) /\ IsNumber(current_ratio)
            THEN IF current_ratio.n > 2000
                 THEN Fired("Liquidite excellente", Pts(1), "Positif")
                 ELSE IF current_ratio.n < 1000
                 THEN Fired("Liquidite preoccupante", -3, "Negatif")
                 ELSE NoSignals
            ELSE NoSignals
    IN  Both(dte_rule, ratio_rule)

analyze_debt(self) ==
    LET w == self.benchmarks.weights
        dte == DictGet(self.fundamentals, "Debt_to_Equity")
        current_ratio == DictGet(self.fundamentals, "Current_Ratio")
        dte_rule ==
            IF Truthy(dte) /\ IsNumber(dte)
            THEN LET debt_low == self.benchmarks.debt_low * self.geo_adj.debt_factor
                     debt_mod == self.benchmarks.debt_moderate * self.geo_adj.debt_factor
                     debt_high == self.benchmarks.debt_high * self.geo_adj.debt_factor
                 IN  IF dte.n * 100 < debt_low
                     THEN Fired("Dette - Tres solide", 2 * w.debt, "Positif")
                     ELSE IF dte.n * 100 < debt_mod
                     THEN Fired("Dette - Modere", 0, "Neutre")
                     ELSE IF dte.n * 100 < debt_high
                     THEN Fired("Dette - Eleve", (-1) * w.debt, "Negatif")
                     ELSE Fired("Dette - Tres eleve", (-3) * w.debt, "Negatif")
            ELSE NoSignals
        ratio_rule ==
            IF Truthy(current_ratio) /\ IsNumber(current_ratio)
            THEN IF current_ratio.n > 2000
                 THEN Fired("Liquidite excellente", Pts(1), "Positif")
                 ELSE IF current_ratio.n < 1000
                 THEN Fired("Liquidite preoccupante", -3, "Negatif")
                 ELSE NoSignals
            ELSE NoSignals
    IN  Both(dte_rule, ratio_rule)

analyze_profitability(self) ==
    LET w == self.benchmarks.weights
        roe == DictGet(self.fundamentals, "ROE")
        profit_margin == DictGet(self.fundamentals, "Profit_Margin")
        roe_rule ==
            IF Truthy(roe) /\ IsNumber(roe)
            THEN LET roe_pct == roe.n * 100
                 IN  IF roe_pct > self.benchmarks.roe_excellent
                     THEN Fired("ROE - Excellence", 2 * w.roe, "Positif")
                     ELSE IF roe_pct > self.benchmarks.roe_good
                     THEN Fired("ROE - Bon", 1 * w.roe, "Positif")
                     ELSE IF roe_pct < self.benchmarks.roe_acceptable
                     THEN Fired("ROE - Faible", (-2) * w.roe, "Negatif")
                     ELSE NoSignals
            ELSE NoSignals
        margin_rule ==
            IF Truthy(profit_margin) /\ IsNumber(profit_margin)
            THEN LET margin_pct == profit_margin.n * 100
                 IN  IF margin_pct > self.benchmarks.margin_excellent
                     THEN Fired("Marge - Excellente", 2 * w.margin, "Positif")
                     ELSE IF margin_pct > self.benchmarks.margin_good
                     THEN Fired("Marge - Correcte", 1 * w.margin, "Positif")
                     ELSE IF margin_pct < self.benchmarks.margin_acceptable
                     THEN Fired("Marge - Tres faible", (-2) * w.margin, "Negatif")
                     ELSE NoSignals
            ELSE NoSignals
    IN  Both(roe_rule, margin_rule)

analyze_growth(self) ==
    LET w == self.benchmarks.weights
        rev_growth == DictGet(self.fundamentals, "Revenue_Growth")
        fcf == DictGet(self.fundamentals, "Free_Cash_Flow")
        market_cap == DictGet(self.fundamentals, "Market_Cap")
        growth_rule ==
            IF Truthy(rev_growth) /\ IsNumber(rev_growth)
            THEN LET rev_growth_pct == rev_growth.n * 100 * 100
                     growth_strong ==
                         self.benchmarks.revenue_growth_strong * self.geo_adj.growth_factor
                     growth_good ==
                         self.benchmarks.revenue_growth_good * self.geo_adj.growth_factor
                 IN  IF rev_growth_pct > growth_strong
                     THEN Fired("Croissance - Forte", 2 * w.growth, "Positif")
                     ELSE IF rev_growth_pct > growth_good
                     THEN Fired("Croissance - Positive", 1 * w.growth, "Positif")
                     ELSE IF rev_growth_pct < 0
                     THEN Fired("Decroissance - Problematique", (-2) * w.growth, "Negatif")
                     ELSE NoSignals
            ELSE NoSignals
        fcf_rule ==
            IF /\ Truthy(fcf) /\ IsNumber(fcf)
               /\ Truthy(market_cap) /\ IsNumber(market_cap)
            THEN IF fcf.n > 0 /\ market_cap.n > 0
                 THEN \* fcf_yield = (fcf / market_cap) * 100
                      IF fcf.n * 100 > 8 * market_cap.n
                      THEN Fired("Cash-flow libre excellent", Pts(2), "Positif")
                      ELSE IF fcf.n * 100 > 5 * market_cap.n
                      THEN Fired("Cash-flow libre bon", Pts(1), "Positif")
                      ELSE NoSignals
                 ELSE IF fcf.n < 0
                 THEN Fired("Cash-flow libre NEGATIF", -Pts(2), "Negatif")
                 ELSE NoSignals
            ELSE NoSignals
    IN  Both(growth_rule, fcf_rule)

\* the health label of a total score
health_of(total_score) ==
    IF total_score >= Pts(6) THEN "Excellent"
    ELSE IF total_score >= Pts(3) THEN "Bon"
    ELSE IF total_score >= Pts(0) THEN "Moyen"
    ELSE IF total_score >= -Pts(3) THEN "Preoccupant"
    ELSE "Mauvais"

\* full_fundamental_analysis(): [score, health, signals]
full_fundamental_analysis(self) ==
    LET val == analyze_valuation(self)
        debt == analyze_debt(self)
        prof == analyze_profitability(self)
        growth == analyze_growth(self)
        total_score == val.score + debt.score + prof.score + growth.score
    IN  [score |-> total_score,
         health |-> health_of(total_score),
         signals |-> <<Signal("Secteur: " \o self.sector, 0, "Info"),
                       Signal("Pays: " \o self.country \o " (" \o self.geographic_zone \o ")",
                              0, "Info")>>
                     \o val.signals \o debt.signals \o prof.signals \o growth.signals]

(***************************************************************************)
(* TechnicalAnalyzer.  The indicator series are computed by pandas; a      *)
(* series of the model is given by what the analyses read of them: its     *)
(* length, its last close and volume, and the last values of the           *)
(* indicators.  A value pandas leaves NaN is told from the length (a       *)
(* rolling window longer than the series) or from a zero average loss.     *)
(***************************************************************************)
Bars(rows) ==
    CASE rows = "uptrend" ->
            [n |-> 250, close |-> 120, sma_50 |-> 110, sma_200 |-> 100,
             avg_gain |-> 5, avg_loss |-> 5, rsi_count |-> 236,
             macd |-> 3, signal |-> 2, prev_macd |-> 1, prev_signal |-> 2,
             upper |-> 130, lower |-> 90,
             has_volume |-> TRUE, volume |-> 400, avg_volume |-> 200]
      [] rows = "downtrend" ->
            [n |-> 250, close |-> 80, sma_50 |-> 90, sma_200 |-> 100,
             avg_gain |-> 9, avg_loss |-> 3, rsi_count |-> 236,
             macd |-> -3, signal |-> -2, prev_macd |-> -4, prev_signal |-> -3,
             upper |-> 95, lower |-> 70,
             has_volume |-> TRUE, volume |-> 200, avg_volume |-> 200]

\* TechnicalAnalyzer.__init__
TechnicalAnalyzer(data) == [data |-> data, bars |-> Bars(data.rows)]

\* len(self.calculate_sma(window).dropna())
sma_count(bars, window) == IF bars.n >= window THEN bars.n - window + 1 ELSE 0

\* a trend analysis whose Golden Cross includes equal averages
trend_golden_on_equality(self) ==
    LET b == self.bars IN
    IF sma_count(b, 50) < 1 \/ sma_count(b, 200) < 1
    THEN [score |-> 0,
          signals |-> <<Signal("Donnees insuffisantes pour l'analyse de tendance", 0, "Neutre")>>]
    ELSE LET cross ==
                 IF b.sma_50 >= b.sma_200
                 THEN Fired("Golden Cross detecte (SMA50 > SMA200)", Pts(2), "Haussier")
                 ELSE Fired("Death Cross detecte (SMA50 < SMA200)", -Pts(2), "Baissier")
             position ==
                 IF b.close > b.sma_50 /\ b.sma_50 > b.sma_200
                 THEN Fired("Prix au-dessus des 2 moyennes mobiles", Pts(1), "Haussier")
                 ELSE IF b.close < b.sma_50 /\ b.sma_50 < b.sma_200
                 THEN Fired("Prix en-dessous des 2 moyennes mobiles", -Pts(1), "Baissier")
                 ELSE NoSignals
         IN  Both(cross, position)

analyze_trend(self) ==
    LET b == self.bars IN
    IF sma_count(b, 50) < 1 \/ sma_count(b, 200) < 1
    THEN [score |-> 0,
          signals |-> <<Signal("Donnees insuffisantes pour l'analyse de tendance", 0, "Neutre")>>]
    ELSE LET cross ==
                 IF b.sma_50 > b.sma_200
                 THEN Fired("Golden Cross detecte (SMA50 > SMA200)", Pts(2), "Haussier")
                 ELSE Fired("Death Cross detecte (SMA50 < SMA200)", -Pts(2), "Baissier")
             position ==
                 IF b.close > b.sma_50 /\ b.sma_50 > b.sma_200
                 THEN Fired("Prix au-dessus des 2 moyennes mobiles", Pts(1), "Haussier")
                 ELSE IF b.close < b.sma_50 /\ b.sma_50 < b.sma_200
                 THEN Fired("Prix en-dessous des 2 moyennes mobiles", -Pts(1), "Baissier")
                 ELSE NoSignals
         IN  Both(cross, position)

\* calculate_rsi().iloc[-1] is NaN: the window of 14 deltas is not full, or the
\* average loss is 0 (replaced by NaN before the division)
rsi_isna(bars) == bars.n < 15 \/ bars.avg_loss = 0

\* rsi = 100 - 100 / (1 + gain / loss) = 100 * gain / (gain + loss), compared
\* with a threshold without dividing
rsi_below(bars, threshold) == 100 * bars.avg_gain < threshold * (bars.avg_gain + bars.avg_loss)

rsi_above(bars, threshold) == 100 * bars.avg_gain > threshold * (bars.avg_gain + bars.avg_loss)

\* a momentum analysis whose oversold band includes an RSI of 30
momentum_oversold_at_30(self) ==
    LET b == self.bars IN
    IF b.rsi_count < 1
    THEN [score |-> 0, signals |-> <<Signal("Donnees insuffisantes pour le RSI", 0, "Neutre")>>]
    ELSE IF rsi_isna(b)
    THEN [score |-> 0, signals |-> <<Signal("RSI non calculable", 0, "Neutre")>>]
    ELSE IF ~rsi_above(b, 30)
    THEN Fired("RSI - Survente", Pts(2), "Haussier")
    ELSE IF rsi_above(b, 70)
    THEN Fired("RSI - Surachat", -Pts(2), "Baissier")
    ELSE IF ~rsi_below(b, 40) /\ ~rsi_above(b, 60)
    THEN Fired("RSI - Neutre", 0, "Neutre")
    ELSE Fired("RSI", 0, "Neutre")

analyze_momentum(self) ==
    LET b == self.bars IN
    IF b.rsi_count < 1
    THEN [score |-> 0, signals |-> <<Signal("Donnees insuffisantes pour le RSI", 0, "Neutre")>>]
    ELSE IF rsi_isna(b)
    THEN [score |-> 0, signals |-> <<Signal("RSI non calculable", 0, "Neutre")>>]
    ELSE IF rsi_below(b, 30)
    THEN Fired("RSI - Survente", Pts(2), "Haussier")
    ELSE IF rsi_above(b, 70)
    THEN Fired("RSI - Surachat", -Pts(2), "Baissier")
    ELSE IF ~rsi_below(b, 40) /\ ~rsi_above(b, 60)
    THEN Fired("RSI - Neutre", 0, "Neutre")
    ELSE Fired("RSI", 0, "Neutre")

\* a MACD analysis that tests the steady case before the crossovers
macd_steady_first(self) ==
    LET b == self.bars IN
    IF b.n < 2
    THEN [score |-> 0, signals |-> <<Signal("Donnees insuffisantes pour le MACD", 0, "Neutre")>>]
    ELSE IF b.macd > b.signal
    THEN Fired("MACD au-dessus du signal", Pts(1), "Haussier")
    ELSE IF b.prev_macd > b.prev_signal /\ b.macd < b.signal
    THEN Fired("MACD croisement baissier", -Pts(2), "Baissier")
    ELSE Fired("MACD en-dessous du signal", -Pts(1), "Baissier")

analyze_macd_signal(self) ==
    LET b == self.bars IN
    IF b.n < 2
    THEN [score |-> 0, signals |-> <<Signal("Donnees insuffisantes pour le MACD", 0, "Neutre")>>]
    ELSE IF b.prev_macd < b.prev_signal /\ b.macd > b.signal
    THEN Fired("MACD croisement haussier", Pts(2), "Haussier")
    ELSE IF b.prev_macd > b.prev_signal /\ b.macd < b.signal
    THEN Fired("MACD croisement baissier", -Pts(2), "Baissier")
    ELSE IF b.macd > b.signal
    THEN Fired("MACD au-dessus du signal", Pts(1), "Haussier")
    ELSE Fired("MACD en-dessous du signal", -Pts(1), "Baissier")

analyze_bollinger(self) ==
    LET b == self.bars IN
    IF sma_count(b, 20) < 1
    THEN [score |-> 0, signals |-> <<Signal("Donnees insuffisantes pour Bollinger", 0, "Neutre")>>]
    ELSE IF b.close <= b.lower
    THEN Fired("Prix touche la bande inferieure", Pts(1), "Haussier")
    ELSE IF b.close >= b.upper
    THEN Fired("Prix touche la bande superieure", -Pts(1), "Baissier")
    ELSE Fired("Prix dans les bandes normales", 0, "Neutre")

analyze_volume(self) ==
    LET b == self.bars IN
    IF ~b.has_volume \/ b.n < 20
    THEN [score |-> 0, signals |-> <<Signal("Donnees de volume insuffisantes", 0, "Neutre")>>]
    ELSE IF b.avg_volume = 0
    THEN [score |-> 0, signals |-> <<Signal("Volume non disponible", 0, "Neutre")>>]
    ELSE IF 2 * b.volume > 3 * b.avg_volume
    THEN \* the signal carries 1, the score grows by 0.5
         [score |-> 1, signals |-> <<Signal("Volume anormalement eleve", Pts(1), "Attention")>>]
    ELSE IF 2 * b.volume < b.avg_volume
    THEN Fired("Volume anormalement faible", 0, "Prudence")
    ELSE Fired("Volume normal", 0, "Neutre")

\* a full analysis that puts the MACD signals before those of the momentum
technical_macd_before_momentum(self) ==
    LET trend == analyze_trend(self)
        momentum == analyze_momentum(self)
        macd == analyze_macd_signal(self)
        bollinger == analyze_bollinger(self)
        volume == analyze_volume(self)
    IN  [signals |-> trend.signals \o macd.signals \o momentum.signals
                     \o bollinger.signals \o volume.signals,
         score |-> trend.score + momentum.score + macd.score
                   + bollinger.score + volume.score]

\* full_technical_analysis(): [signals, score]
full_technical_analysis(self) ==
    LET trend == analyze_trend(self)
        momentum == analyze_momentum(self)
        macd == analyze_macd_signal(self)
        bollinger == analyze_bollinger(self)
        volume == analyze_volume(self)
    IN  [signals |-> trend.signals \o momentum.signals \o macd.signals
                     \o bollinger.signals \o volume.signals,
         score |-> trend.score + momentum.score + macd.score
                   + bollinger.score + volume.score]

(***************************************************************************)
(* The cache operations as calls on the database.                          *)
(***************************************************************************)
\* payloads handed to save_stock_prices and save_fundamentals
PricePayloads ==
    {cache_data(DataFrame("uptrend", "DatetimeIndex", "str"), "1y"),
     cache_data(DataFrame("downtrend", "DatetimeIndex", "str"), "1d"),
     cache_data(DataFrame("uptrend", "DatetimeIndex", "Timestamp"), "1y")}

FundamentalsPayloads ==
    {fundamentals_from_info(InfoStrong), fundamentals_from_info(InfoConcerning)}

\* the processes that share the database file
Pipelines == {1, 2}

\* no process is inside a call
NoCall == [p \in Pipelines |-> [pc |-> "idle", ticker |-> "", result |-> PyNone]]

NoArgs == [op |-> "", ticker |-> "", found |-> "", data |-> PyNone]

\* the call as the caller sees it: found tells whether, when the call was made,
\* the key had no entry ("absent"), one past its expiry ("expired") or a live one
Call(op, ticker, table, data) ==
    [op |-> op, ticker |-> ticker,
     found |-> IF \A r \in table : r.ticker # Upper(ticker) THEN "absent"
               ELSE IF \E r \in table : r.ticker = Upper(ticker) /\ now > r.expiry_date
                    THEN "expired" ELSE "live",
     data |-> data]

UnchangedAnalyzer == UNCHANGED <<analysis_results, analyzer>>

GetStockPrices(ticker) ==
    LET r == get_stock_prices(stock_prices, ticker) IN
    /\ stock_prices' = r.table
    /\ args' = Call("get_stock_prices", ticker, stock_prices, PyNone)
    /\ ret' = [raised |-> r.raised, value |-> r.value]
    /\ UNCHANGED <<connections, now, fundamentals>>
    /\ UnchangedAnalyzer

GetFundamentals(ticker) ==
    LET r == get_fundamentals(fundamentals, ticker) IN
    /\ fundamentals' = r.table
    /\ args' = Call("get_fundamentals", ticker, fundamentals, PyNone)
    /\ ret' = [raised |-> r.raised, value |-> r.value]
    /\ UNCHANGED <<connections, now, stock_prices>>
    /\ UnchangedAnalyzer

SaveStockPrices(ticker, data) ==
    LET r == save_stock_prices(stock_prices, ticker, data) IN
    /\ stock_prices' = r.table
    /\ args' = Call("save_stock_prices", ticker, stock_prices, data)
    /\ ret' = [raised |-> r.raised, value |-> PyNone]
    /\ UNCHANGED <<connections, now, fundamentals>>
    /\ UnchangedAnalyzer

SaveFundamentals(ticker, data) ==
    LET r == save_fundamentals(fundamentals, ticker, data) IN
    /\ fundamentals' = r.table
    /\ args' = Call("save_fundamentals", ticker, fundamentals, data)
    /\ ret' = [raised |-> r.raised, value |-> PyNone]
    /\ UNCHANGED <<connections, now, stock_prices>>
    /\ UnchangedAnalyzer

DeleteStockPrices(ticker) ==
    /\ stock_prices' = delete_stock_prices(stock_prices, ticker)
    /\ args' = Call("delete_stock_prices", ticker, stock_prices, PyNone)
    /\ ret' = [raised |-> "", value |-> PyNone]
    /\ UNCHANGED <<connections, now, fundamentals>>
    /\ UnchangedAnalyzer

DeleteFundamentals(ticker) ==
    /\ fundamentals' = delete_fundamentals(fundamentals, ticker)
    /\ args' = Call("delete_fundamentals", ticker, fundamentals, PyNone)
    /\ ret' = [raised |-> "", value |-> PyNone]
    /\ UNCHANGED <<connections, now, stock_prices>>
    /\ UnchangedAnalyzer

\* clear_all_cache()
\* a clear that empties the history as well
clear_everything ==
    /\ stock_prices' = {}
    /\ fundamentals' = {}
    /\ analysis_results' = << >>
    /\ args' = [NoArgs EXCEPT !.op = "clear_all_cache"]
    /\ ret' = [raised |-> "", value |-> PyNone]
    /\ UNCHANGED <<connections, now, analyzer>>

ClearAllCache ==
    /\ stock_prices' = {}
    /\ fundamentals' = {}
    /\ args' = [NoArgs EXCEPT !.op = "clear_all_cache"]
    /\ ret' = [raised |-> "", value |-> PyNone]
    /\ UNCHANGED <<connections, now>>
    /\ UnchangedAnalyzer

GetCacheStats ==
    /\ args' = [NoArgs EXCEPT !.op = "get_cache_stats"]
    /\ ret' = [raised |-> "", value |-> get_cache_stats]
    /\ UNCHANGED <<connections, now, stock_prices, fundamentals>>
    /\ UnchangedAnalyzer

\* the clock advances between two calls
Tick ==
    /\ now < MaxTime
    /\ now' = now + 1
    /\ args' = [NoArgs EXCEPT !.op = "tick"]
    /\ ret' = [raised |-> "", value |-> PyNone]
    /\ UNCHANGED <<stock_prices, fundamentals, analysis_results, analyzer, connections>>

NewAnalyzer ==
    [ticker |-> "", historical_data |-> PyNone, fundamentals |-> PyNone,
     current_price |-> PyNone, sector |-> PyNone, industry |-> PyNone,
     country |-> PyNone]

InitCache ==
    /\ now = 0
    /\ connections = NoCall
    /\ stock_prices = {}
    /\ fundamentals = {}
    /\ analysis_results = << >>
    /\ analyzer = NewAnalyzer
    /\ args = NoArgs
    /\ ret = [raised |-> "", value |-> PyNone]

NextCache ==
    \/ \E t \in RawTickers : GetStockPrices(t)
    \/ \E t \in FundamentalsTickers : GetFundamentals(t)
    \/ \E t \in RawTickers, d \in PricePayloads : SaveStockPrices(t, d)
    \/ \E t \in FundamentalsTickers, d \in FundamentalsPayloads : SaveFundamentals(t, d)
    \/ \E t \in RawTickers : DeleteStockPrices(t)
    \/ \E t \in FundamentalsTickers : DeleteFundamentals(t)
    \/ ClearAllCache
    \/ GetCacheStats
    \/ Tick

SpecCache == InitCache /\ [][NextCache]_vars

(***************************************************************************)
(* DataFetcher.  The provider's answers are inputs: history is what        *)
(* stock.history(period) does and info what stock.info does, each          *)
(* [raised, value].                                                        *)
(***************************************************************************)
InfoOutcomesOf(infos) ==
    {[raised |-> "Exception", value |-> PyNone]}
    \cup {[raised |-> "", value |-> i] : i \in infos}

\* a fetch that takes a cached series of another period for a miss
fetch_keyed_by_period(table, ticker, period, history) ==
    LET cached == get_stock_prices(table, ticker) IN
    IF cached.raised # ""
    THEN [table |-> cached.table, raised |-> cached.raised, value |-> PyNone]
    ELSE IF /\ Truthy(cached.value) /\ "historical" \in DOMAIN cached.value.items
            /\ cached.value.items.period = Str(period)
    THEN [table |-> cached.table, raised |-> "",
          value |-> from_records(cached.value.items.historical)]
    ELSE IF history.raised # ""
    THEN [table |-> cached.table, raised |-> "", value |-> PyNone]
    ELSE IF history.value = PyNone \/ df_empty(history.value)
    THEN [table |-> cached.table, raised |-> "", value |-> PyNone]
    ELSE LET saved == save_stock_prices(cached.table, ticker,
                                        cache_data(history.value, period)) IN
         IF saved.raised # ""
         THEN [table |-> saved.table, raised |-> "", value |-> PyNone]
         ELSE [table |-> saved.table, raised |-> "", value |-> history.value]

\* fetch_historical_data(period) on the table stock_prices: [table, raised, value]
fetch_historical_data(table, ticker, period, history) ==
    LET cached == get_stock_prices(table, ticker) IN
    IF cached.raised # ""
    THEN [table |-> cached.table, raised |-> cached.raised, value |-> PyNone]
    ELSE IF Truthy(cached.value) /\ "historical" \in DOMAIN cached.value.items
    THEN [table |-> cached.table, raised |-> "",
          value |-> from_records(cached.value.items.historical)]
    ELSE IF history.raised # ""
    THEN [table |-> cached.table, raised |-> "", value |-> PyNone]
    ELSE IF history.value = PyNone \/ df_empty(history.value)
    THEN [table |-> cached.table, raised |-> "", value |-> PyNone]
    ELSE LET saved == save_stock_prices(cached.table, ticker,
                                        cache_data(history.value, period)) IN
         IF saved.raised # ""
         THEN [table |-> saved.table, raised |-> "", value |-> PyNone]
         ELSE [table |-> saved.table, raised |-> "", value |-> history.value]

\* a fetch that gives up the fresh metrics when saving them raises
fetch_dropping_unsaved(table, ticker, info) ==
    LET cached == get_fundamentals(table, ticker) IN
    IF cached.raised # ""
    THEN [table |-> cached.table, raised |-> cached.raised, value |-> PyNone]
    ELSE IF Truthy(cached.value)
    THEN [table |-> cached.table, raised |-> "", value |-> cached.value]
    ELSE IF info.raised # ""
    THEN [table |-> cached.table, raised |-> "", value |-> EmptyDict]
    ELSE LET filled == fundamentals_from_info(info.value)
             saved == save_fundamentals(cached.table, ticker, filled)
         IN  [table |-> saved.table, raised |-> "",
              value |-> IF saved.raised # "" THEN EmptyDict ELSE filled]

\* fetch_fundamentals() on the table fundamentals: [table, raised, value]
fetch_fundamentals(table, ticker, info) ==
    LET cached == get_fundamentals(table, ticker) IN
    IF cached.raised # ""
    THEN [table |-> cached.table, raised |-> cached.raised, value |-> PyNone]
    ELSE IF Truthy(cached.value)
    THEN [table |-> cached.table, raised |-> "", value |-> cached.value]
    ELSE IF info.raised # ""
    THEN [table |-> cached.table, raised |-> "", value |-> EmptyDict]
    ELSE LET filled == fundamentals_from_info(info.value)
             saved == save_fundamentals(cached.table, ticker, filled)
         IN  [table |-> saved.table, raised |-> "", value |-> filled]

\* `a or b`
PyOr(a, b) == IF Truthy(a) THEN a ELSE b

\* data['Close'].iloc[-1]
last_close(df) == Num(Bars(df.rows).close * 1000)

\* get_current_price() on the table stock_prices: [table, value]
get_current_price(table, ticker, info, history) ==
    IF info.raised = ""
    THEN [table |-> table,
          value |-> PyOr(InfoGet(info.value, "currentPrice", PyNone),
                         InfoGet(info.value, "regularMarketPrice", PyNone))]
    ELSE LET data == fetch_historical_data(table, ticker, "1d", history) IN
         IF data.raised = "" /\ data.value # PyNone /\ ~df_empty(data.value)
         THEN [table |-> data.table, value |-> last_close(data.value)]
         ELSE [table |-> data.table, value |-> PyNone]

(***************************************************************************)
(* StockAnalyzer.  Recommendations and horizons are written without        *)
(* accents.                                                                *)
(***************************************************************************)
PyBool(b) == [py |-> "bool", b |-> b]

PyFloat(half) == [py |-> "float", half |-> half]

\* StockAnalyzer(ticker, db)
StockAnalyzer(ticker) == [NewAnalyzer EXCEPT !.ticker = Upper(ticker)]

\* fetch_all_data(period): [analyzer, stock_prices, fundamentals, raised, value]
fetch_all_data(self, prices, funds, period, history, info) ==
    LET hist == fetch_historical_data(prices, self.ticker, period, history)
        self1 == [self EXCEPT !.historical_data = hist.value]
    IN
    IF hist.raised # ""
    THEN [analyzer |-> self, stock_prices |-> hist.table, fundamentals |-> funds,
          raised |-> hist.raised, value |-> PyNone]
    ELSE IF hist.value = PyNone \/ df_empty(hist.value)
    THEN [analyzer |-> self1, stock_prices |-> hist.table, fundamentals |-> funds,
          raised |-> "", value |-> PyBool(FALSE)]
    ELSE
    LET fund == fetch_fundamentals(funds, self.ticker, info)
        self2 == [self1 EXCEPT !.fundamentals = fund.value]
    IN
    IF fund.raised # ""
    THEN [analyzer |-> self1, stock_prices |-> hist.table, fundamentals |-> fund.table,
          raised |-> fund.raised, value |-> PyNone]
    ELSE IF ~Truthy(fund.value)
    THEN [analyzer |-> self2, stock_prices |-> hist.table, fundamentals |-> fund.table,
          raised |-> "", value |-> PyBool(FALSE)]
    ELSE
    LET price == get_current_price(hist.table, self.ticker, info, history)
        self3 == [self2 EXCEPT
                    !.sector = DictGetOr(fund.value, "Sector", Str("Unknown")),
                    !.industry = DictGetOr(fund.value, "Industry", Str("Unknown")),
                    !.country = DictGetOr(fund.value, "Country", Str("Unknown")),
                    !.current_price = price.value]
    IN  [analyzer |-> self3, stock_prices |-> price.table, fundamentals |-> fund.table,
         raised |-> "", value |-> PyBool(TRUE)]

\* a Strong Sell decided by the final score instead of the fundamental score
strong_sell_on_final_score(final_score, fund_score) ==
    IF final_score < -Pts(6) THEN <<"VENTE FORTE", "Court terme">>
    ELSE IF final_score >= Pts(8) THEN <<"ACHAT FORT", "Moyen/Long terme">>
    ELSE IF final_score >= Pts(5) THEN <<"ACHAT", "Moyen terme">>
    ELSE IF final_score >= Pts(2) THEN <<"ACHAT LEGER", "Court/Moyen terme">>
    ELSE IF final_score >= -Pts(2) THEN <<"CONSERVER", "Surveillance">>
    ELSE IF final_score >= -Pts(5) THEN <<"VENTE LEGERE", "Court terme">>
    ELSE <<"VENTE", "Immediat">>

\* a Hold band that leaves out its lower end
open_hold_recommendation(final_score, fund_score) ==
    IF fund_score < -Pts(6) THEN <<"VENTE FORTE", "Court terme">>
    ELSE IF final_score >= Pts(8) THEN <<"ACHAT FORT", "Moyen/Long terme">>
    ELSE IF final_score >= Pts(5) THEN <<"ACHAT", "Moyen terme">>
    ELSE IF final_score >= Pts(2) THEN <<"ACHAT LEGER", "Court/Moyen terme">>
    ELSE IF final_score > -Pts(2) THEN <<"CONSERVER", "Surveillance">>
    ELSE IF final_score >= -Pts(5) THEN <<"VENTE LEGERE", "Court terme">>
    ELSE <<"VENTE", "Immediat">>

\* the band of a Buy shifted by one point
shifted_recommendation(final_score, fund_score) ==
    IF fund_score < -Pts(6) THEN <<"VENTE FORTE", "Court terme">>
    ELSE IF final_score >= Pts(8) THEN <<"ACHAT FORT", "Moyen/Long terme">>
    ELSE IF final_score >= Pts(4) THEN <<"ACHAT", "Moyen terme">>
    ELSE IF final_score >= Pts(2) THEN <<"ACHAT LEGER", "Court/Moyen terme">>
    ELSE IF final_score >= -Pts(2) THEN <<"CONSERVER", "Surveillance">>
    ELSE IF final_score >= -Pts(5) THEN <<"VENTE LEGERE", "Court terme">>
    ELSE <<"VENTE", "Immediat">>

\* _generate_recommendation(final_score, fund_score): <<recommendation, time_horizon>>
_generate_recommendation(final_score, fund_score) ==
    IF fund_score < -Pts(6) THEN <<"VENTE FORTE", "Court terme">>
    ELSE IF final_score >= Pts(8) THEN <<"ACHAT FORT", "Moyen/Long terme">>
    ELSE IF final_score >= Pts(5) THEN <<"ACHAT", "Moyen terme">>
    ELSE IF final_score >= Pts(2) THEN <<"ACHAT LEGER", "Court/Moyen terme">>
    ELSE IF final_score >= -Pts(2) THEN <<"CONSERVER", "Surveillance">>
    ELSE IF final_score >= -Pts(5) THEN <<"VENTE LEGERE", "Court terme">>
    ELSE <<"VENTE", "Immediat">>

\* a gate that leaves out its threshold
gate_above(fund_score) == fund_score > -Pts(3)

\* the gate of analyze: technical analysis runs when the fundamentals are not
\* catastrophic
technical_gate(fund_score) == fund_score >= -Pts(3)

\* a save that writes nothing
save_nothing(table, ticker, recommendation, score, data) == table

\* save_analysis_result(ticker, recommendation, score, data): the table afterwards
save_analysis_result(table, ticker, recommendation, score, data) ==
    Append(table, [ticker |-> Upper(ticker), recommendation |-> recommendation,
                   score |-> score, data |-> data, timestamp |-> now])

\* the results dictionary analyze builds from the scorers' results
results_of(self, fund, tech) ==
    LET gate == technical_gate(fund.score)
        final_score == IF gate THEN fund.score + tech.score ELSE fund.score
        rec == _generate_recommendation(final_score, fund.score)
    IN  [success |-> TRUE,
         ticker |-> self.ticker,
         current_price |-> self.current_price,
         sector |-> self.sector,
         industry |-> self.industry,
         country |-> self.country,
         fundamental_score |-> fund.score,
         fundamental_health |-> fund.health,
         fundamental_signals |-> fund.signals,
         technical_score |-> IF gate THEN PyFloat(tech.score) ELSE PyNone,
         technical_signals |-> IF gate THEN tech.signals ELSE << >>,
         final_score |-> final_score,
         recommendation |-> rec[1],
         time_horizon |-> rec[2]]

\* the analysis analyze makes of fetched data
analysis_results_of(self) ==
    CHOOSE results \in
        {results_of(self, fund, tech) :
            fund \in {full_fundamental_analysis(fund_analyzer) :
                        fund_analyzer \in {FundamentalAnalyzer(self.fundamentals, self.sector,
                                                               self.industry, self.country)}},
            tech \in {full_technical_analysis(tech_analyzer) :
                        tech_analyzer \in {TechnicalAnalyzer(self.historical_data)}}} : TRUE

FailedToFetch == [success |-> FALSE, error |-> "Unable to fetch data for analysis"]

\* analyze after its fetch: [analyzer, stock_prices, fundamentals,
\* analysis_results, raised, value]
analyze_fetched(ticker, results_table, fetched) ==
    IF fetched.raised # ""
    THEN [analyzer |-> fetched.analyzer, stock_prices |-> fetched.stock_prices,
          fundamentals |-> fetched.fundamentals, analysis_results |-> results_table,
          raised |-> fetched.raised, value |-> PyNone]
    ELSE IF ~fetched.value.b
    THEN [analyzer |-> fetched.analyzer, stock_prices |-> fetched.stock_prices,
          fundamentals |-> fetched.fundamentals, analysis_results |-> results_table,
          raised |-> "", value |-> FailedToFetch]
    ELSE CHOOSE returned \in
             {[analyzer |-> fetched.analyzer, stock_prices |-> fetched.stock_prices,
               fundamentals |-> fetched.fundamentals,
               analysis_results |->
                   save_analysis_result(results_table, ticker, results.recommendation,
                                        results.final_score, results),
               raised |-> "", value |-> results] :
                 results \in {analysis_results_of(fetched.analyzer)}} : TRUE

\* analyze()
analyze(self, prices, funds, results_table, history, info) ==
    CHOOSE returned \in
        {analyze_fetched(self.ticker, results_table, fetched) :
            fetched \in {IF self.historical_data = PyNone \/ self.fundamentals = PyNone
                         THEN fetch_all_data(self, prices, funds, "1y", history, info)
                         ELSE [analyzer |-> self, stock_prices |-> prices,
                               fundamentals |-> funds, raised |-> "",
                               value |-> PyBool(TRUE)]}} : TRUE

(***************************************************************************)
(* The analysis pipeline of one ticker: calls on a StockAnalyzer, the      *)
(* cache being cleared and the clock advancing in between.                 *)
(***************************************************************************)
PipelineCall(op, period) ==
    [NoArgs EXCEPT !.op = op, !.ticker = analyzer.ticker, !.data = Str(period)]

\* a presentation layer makes a new analyzer for a request
Construct(ticker) ==
    /\ analyzer' = StockAnalyzer(ticker)
    /\ args' = [NoArgs EXCEPT !.op = "StockAnalyzer", !.ticker = ticker]
    /\ ret' = [raised |-> "", value |-> PyNone]
    /\ UNCHANGED <<connections, now, stock_prices, fundamentals, analysis_results>>

FetchAllData(period, history, info) ==
    \E r \in {fetch_all_data(analyzer, stock_prices, fundamentals, period, history, info)} :
    /\ analyzer' = r.analyzer
    /\ stock_prices' = r.stock_prices
    /\ fundamentals' = r.fundamentals
    /\ args' = PipelineCall("fetch_all_data", period)
    /\ ret' = [raised |-> r.raised, value |-> r.value]
    /\ UNCHANGED <<connections, now, analysis_results>>

Analyze(history, info) ==
    \E r \in {analyze(analyzer, stock_prices, fundamentals, analysis_results,
                     history, info)} :
    /\ Len(analysis_results) < MaxHistory
    /\ analyzer' = r.analyzer
    /\ stock_prices' = r.stock_prices
    /\ fundamentals' = r.fundamentals
    /\ analysis_results' = r.analysis_results
    /\ args' = PipelineCall("analyze", "1y")
    /\ ret' = [raised |-> r.raised, value |-> r.value]
    /\ UNCHANGED <<connections, now>>

\* StockAnalyzer.clear_cache()
ClearCache ==
    /\ stock_prices' = delete_stock_prices(stock_prices, analyzer.ticker)
    /\ fundamentals' = delete_fundamentals(fundamentals, analyzer.ticker)
    /\ args' = PipelineCall("clear_cache", "")
    /\ ret' = [raised |-> "", value |-> PyNone]
    /\ UNCHANGED <<connections, now, analysis_results, analyzer>>

Init ==
    /\ now = 0
    /\ connections = NoCall
    /\ stock_prices = {}
    /\ fundamentals = {}
    /\ analysis_results = << >>
    /\ analyzer = StockAnalyzer("aapl")
    /\ args = [NoArgs EXCEPT !.op = "StockAnalyzer", !.ticker = "aapl"]
    /\ ret = [raised |-> "", value |-> PyNone]

\* what the provider answers in the pipeline
PipelineHistories == HistoriesOf({"uptrend"})

PipelineInfos == InfoOutcomesOf({InfoStrong, InfoConcerning})

Next ==
    \/ Construct("aapl")
    \/ \E h \in PipelineHistories, i \in PipelineInfos : FetchAllData("1y", h, i)
    \/ \E h \in PipelineHistories, i \in PipelineInfos : Analyze(h, i)
    \/ ClearCache

Spec == Init /\ [][Next]_vars

(***************************************************************************)
(* The pipeline with a provider that answers with empty results: a frame   *)
(* without rows (in HistoriesOf) and an info dictionary without entries.   *)
(***************************************************************************)
EmptyInfos == InfoOutcomesOf({EmptyDict, InfoStrong})

NextEmpty ==
    \/ Construct("aapl")
    \/ \E h \in PipelineHistories, i \in EmptyInfos : FetchAllData("1y", h, i)
    \/ \E h \in PipelineHistories, i \in EmptyInfos : Analyze(h, i)
    \/ ClearCache

SpecEmpty == Init /\ [][NextEmpty]_vars

(***************************************************************************)
(* The read-through fetch asked for different periods while the provider   *)
(* answers with different series and the clock advances.                   *)
(***************************************************************************)
ReadThroughHistories == HistoriesOf(SeriesIds)

NextReadThrough ==
    \/ \E p \in Periods, h \in ReadThroughHistories, i \in PipelineInfos :
          FetchAllData(p, h, i)
    \/ Tick

SpecReadThrough == Init /\ [][NextReadThrough]_vars

(***************************************************************************)
(* The pipeline with provider answers that json.dumps refuses, so that the *)
(* write to the cache raises: a price frame whose dates are Timestamp      *)
(* objects (in HistoriesOf) and an info dictionary with a numpy integer.   *)
(***************************************************************************)
\* a numpy.int64: neither an int nor a float for isinstance
NpInt64(n) == [py |-> "int64", n |-> n]

InfoNumpy == Dict([InfoStrong.items EXCEPT !.marketCap = NpInt64(1000000)])

WriteFaultInfos == InfoOutcomesOf({InfoStrong, InfoNumpy})

NextWriteFault ==
    \/ \E h \in PipelineHistories, i \in WriteFaultInfos : FetchAllData("1y", h, i)
    \/ \E h \in PipelineHistories, i \in WriteFaultInfos : Analyze(h, i)
    \/ Tick

SpecWriteFault == Init /\ [][NextWriteFault]_vars

(***************************************************************************)
(* The read-through fetch over a database file whose data column, which    *)
(* the schema declares as TEXT, may come to hold text that is not JSON.    *)
(***************************************************************************)
Malformed(row) == [row EXCEPT !.data.wf = FALSE]

CorruptStockPrices ==
    /\ \E r \in stock_prices :
         /\ r.data.wf
         /\ stock_prices' = (stock_prices \ {r}) \cup {Malformed(r)}
    /\ args' = [NoArgs EXCEPT !.op = "corrupt"]
    /\ ret' = [raised |-> "", value |-> PyNone]
    /\ UNCHANGED <<connections, now, fundamentals, analysis_results, analyzer>>

CorruptFundamentals ==
    /\ \E r \in fundamentals :
         /\ r.data.wf
         /\ fundamentals' = (fundamentals \ {r}) \cup {Malformed(r)}
    /\ args' = [NoArgs EXCEPT !.op = "corrupt"]
    /\ ret' = [raised |-> "", value |-> PyNone]
    /\ UNCHANGED <<connections, now, stock_prices, analysis_results, analyzer>>

NextFault ==
    \/ \E h \in PipelineHistories, i \in PipelineInfos : FetchAllData("1y", h, i)
    \/ \E t \in FundamentalsTickers : GetStockPrices(t)
    \/ \E t \in FundamentalsTickers : GetFundamentals(t)
    \/ CorruptStockPrices
    \/ CorruptFundamentals
    \/ Tick

SpecFault == Init /\ [][NextFault]_vars

(***************************************************************************)
(* Analyses of fetched data: the analyzer has fetched the data of one of   *)
(* many companies and analyze is called on it.                             *)
(***************************************************************************)
Optional(key, values) == {<< >>} \cup {key :> Num(v) : v \in values}

\* stock.info of companies of one sector and country whose metrics vary
ScoringInfos ==
    {Dict([sector |-> Str("Technology"), country |-> Str("United States")]
          @@ pe @@ peg @@ dte @@ cr @@ roe) :
        pe \in Optional("trailingPE", {15000, 60000}),
        peg \in Optional("pegRatio", {1000, 3000}),
        dte \in Optional("debtToEquity", {20000, 200000}),
        cr \in Optional("currentRatio", {800}),
        roe \in Optional("returnOnEquity", {250, 50})}

AnalysedInfos == ScoringInfos \cup Infos

InitAnalysis ==
    /\ now = 0
    /\ connections = NoCall
    /\ analysis_results = << >>
    /\ \E i \in AnalysedInfos, s \in SeriesIds :
         \E r \in {fetch_all_data(StockAnalyzer("aapl"), {}, {}, "1y",
                                    [raised |-> "",
                                     value |-> DataFrame(s, "DatetimeIndex", "str")],
                                    [raised |-> "", value |-> i])} :
             /\ stock_prices = r.stock_prices
             /\ fundamentals = r.fundamentals
             /\ analyzer = r.analyzer
             /\ args = [NoArgs EXCEPT !.op = "fetch_all_data", !.ticker = "AAPL",
                                      !.data = Str("1y")]
             /\ ret = [raised |-> r.raised, value |-> r.value]

NextAnalysis == \E h \in PipelineHistories, i \in PipelineInfos : Analyze(h, i)

SpecAnalysis == InitAnalysis /\ [][NextAnalysis]_vars

(***************************************************************************)
(* The analysis of companies whose sector, country and metrics vary: what  *)
(* stock.info holds under a key is nothing, None, text or a number.        *)
(***************************************************************************)
Maybe(key, values) == {<< >>} \cup {key :> v : v \in values}

\* a dictionary without one of its keys
Without(items, key) == [k \in (DOMAIN items) \ {key} |-> items[k]]

SectorValues ==
    {PyNone, Str(""), Str("N/A"), Str("Biotech"), Str("Technology"), Str("Healthcare")}

CountryValues ==
    {PyNone, Str(""), Str("N/A"), Str("Atlantis"), Str("United States"), Str("USA"),
     Str("France"), Str("Hong Kong"), Str("Japan"), Str("India")}

\* the countries the classification table names
ClassifiedCountries ==
    {"United States", "USA", "France", "Germany", "United Kingdom", "Italy", "Spain",
     "Netherlands", "Belgium", "Switzerland", "Sweden", "Norway", "China", "Hong Kong",
     "Japan", "India", "Brazil", "Mexico", "South Africa", "Indonesia", "Turkey",
     "Thailand", "Malaysia", "Philippines"}

\* the metrics of InfoStrong and of InfoWeak
MetricKeys ==
    {"trailingPE", "pegRatio", "returnOnEquity", "profitMargins", "revenueGrowth",
     "debtToEquity", "currentRatio", "freeCashflow", "marketCap"}

MetricsOf(info) == [k \in MetricKeys |-> info.items[k]]

SectorInfos ==
    {Dict(sector @@ country @@ metrics) :
        sector \in Maybe("sector", SectorValues),
        country \in Maybe("country", CountryValues),
        metrics \in {MetricsOf(InfoStrong), MetricsOf(InfoWeak)}}

\* debt-to-equity in each band of each zone, and not a number
DebtValues ==
    {PyNone, Str("Infinity"), Num(0), Num(-5000), Num(20000), Num(30000), Num(50000),
     Num(100000), Num(200000), Num(600000)}

DebtInfos ==
    {Dict([sector |-> sector, country |-> country] @@ dte) :
        sector \in {Str("Technology"), Str("Financial Services")},
        country \in {Str("United States"), Str("France"), Str("China"), Str("Japan"),
                     Str("India")},
        dte \in Maybe("debtToEquity", DebtValues)}

\* free cash flow and market cap: yields of 4, 5, 6, 8 and 9 per cent of a
\* market cap of 1000, and values that are missing, zero, negative or text
CashFlowInfos ==
    {Dict([sector |-> sector, country |-> Str("United States")] @@ fcf @@ cap) :
        sector \in {Str("Technology"), Str("Utilities")},
        fcf \in Maybe("freeCashflow",
                      {PyNone, Str("N/A"), Num(0), Num(-5000), Num(40), Num(50), Num(60),
                       Num(80), Num(90)}),
        cap \in Maybe("marketCap", {PyNone, Str("N/A"), Num(0), Num(1000), Num(-1000)})}

\* one metric of a company missing, None, text or zero
MissingInfos ==
    {Dict(Without(InfoStrong.items, k)) : k \in MetricKeys}
    \cup {Dict([InfoStrong.items EXCEPT ![k] = v]) :
            k \in MetricKeys, v \in {PyNone, Str("Infinity"), Num(0)}}
    \cup {Dict([k \in MetricKeys |-> v]) : v \in {PyNone, Str("Infinity"), Num(0)}}

\* a company of every country the classification names
CountryInfos ==
    {Dict([sector |-> Str("Technology"), country |-> Str(c)] @@ MetricsOf(InfoWeak)) :
        c \in ClassifiedCountries}

FundamentalInfos ==
    SectorInfos \cup CountryInfos \cup DebtInfos \cup CashFlowInfos \cup MissingInfos

InitFundamental ==
    /\ now = 0
    /\ connections = NoCall
    /\ analysis_results = << >>
    /\ \E i \in FundamentalInfos :
         \E r \in {fetch_all_data(StockAnalyzer("aapl"), {}, {}, "1y",
                                    [raised |-> "",
                                     value |-> DataFrame("uptrend", "DatetimeIndex", "str")],
                                    [raised |-> "", value |-> i])} :
             /\ stock_prices = r.stock_prices
             /\ fundamentals = r.fundamentals
             /\ analyzer = r.analyzer
             /\ args = [NoArgs EXCEPT !.op = "fetch_all_data", !.ticker = "AAPL",
                                      !.data = Str("1y")]
             /\ ret = [raised |-> r.raised, value |-> r.value]

SpecFundamental == InitFundamental /\ [][NextAnalysis]_vars

(***************************************************************************)
(* The history as calls on the database: save_analysis_result and          *)
(* get_analysis_history.  The id of a row is its place in analysis_results *)
(* and its timestamp is the clock value of its insertion                   *)
(* (DEFAULT CURRENT_TIMESTAMP).                                            *)
(***************************************************************************)
\* the ids of the rows SELECT ... WHERE ticker = ? finds
history_ids(table, ticker) == {i \in 1..Len(table) : table[i].ticker = Upper(ticker)}

\* LIMIT ?: the number of rows returned of n
limited(n, limit) == IF limit < n THEN limit ELSE n

\* ORDER BY timestamp DESC LIMIT ?: the id sequences the query may produce.  The
\* timestamps do not rise along the sequence and no row left out has a later
\* timestamp than a row of it; SQL leaves the order of equal timestamps open.
order_by_timestamp_desc(table, ids, limit) ==
    {s \in [1..limited(Cardinality(ids), limit) -> ids] :
        /\ \A j, k \in DOMAIN s : j < k =>
              s[j] # s[k] /\ table[s[j]].timestamp >= table[s[k]].timestamp
        /\ \A m \in ids : (\A j \in DOMAIN s : s[j] # m) =>
              \A j \in DOMAIN s : table[m].timestamp <= table[s[j]].timestamp}

\* the tuples of a signal list come back from JSON as lists
signals_as_lists(signals) ==
    [i \in DOMAIN signals |-> <<signals[i].desc, signals[i].delta, signals[i].sentiment>>]

\* json.loads(row[2]) of the text json.dumps(data) wrote
history_data(data) ==
    IF "fundamental_signals" \in DOMAIN data
    THEN [data EXCEPT !.fundamental_signals = signals_as_lists(@),
                      !.technical_signals = signals_as_lists(@)]
    ELSE data

\* the dictionary get_analysis_history builds of a row
history_record(row) ==
    [recommendation |-> row.recommendation, score |-> row.score,
     data |-> history_data(row.data), timestamp |-> row.timestamp]

\* get_analysis_history(ticker, limit) for the order ids of the rows
get_analysis_history(table, ids) == [j \in DOMAIN ids |-> history_record(table[ids[j]])]

Limits == {1, 2, 10}

\* what direct callers save: a recommendation and its score
HistoryPayloads == {[recommendation |-> "ACHAT", final_score |-> 10]}

SaveAnalysisResult(ticker, data) ==
    /\ Len(analysis_results) < MaxRecords
    /\ analysis_results' =
          save_analysis_result(analysis_results, ticker, data.recommendation,
                               data.final_score, data)
    /\ args' = [NoArgs EXCEPT !.op = "save_analysis_result", !.ticker = ticker]
    /\ ret' = [raised |-> "", value |-> PyNone]
    /\ UNCHANGED <<connections, now, stock_prices, fundamentals, analyzer>>

\* found holds the ids of the returned rows, in the order of the result
GetAnalysisHistory(ticker, limit) ==
    /\ \E ids \in order_by_timestamp_desc(analysis_results,
                                          history_ids(analysis_results, ticker), limit) :
          /\ args' = [op |-> "get_analysis_history", ticker |-> ticker, found |-> ids,
                      data |-> PyNone, limit |-> limit]
          /\ ret' = [raised |-> "", value |-> get_analysis_history(analysis_results, ids)]
    /\ UNCHANGED <<connections, now, stock_prices, fundamentals, analysis_results, analyzer>>

NextHistory ==
    \/ \E t \in RawTickers, d \in HistoryPayloads : SaveAnalysisResult(t, d)
    \/ \E t \in RawTickers, l \in Limits : GetAnalysisHistory(t, l)
    \/ Tick

SpecHistory == InitCache /\ [][NextHistory]_vars

(***************************************************************************)
(* The cache of two tickers next to a history: the calls on the two cache  *)
(* tables with tickers in either letter case, while analyses are recorded  *)
(* and the clock advances.                                                 *)
(***************************************************************************)
FramePricePayloads == {cache_data(DataFrame("uptrend", "DatetimeIndex", "str"), "1y")}

FrameFundamentalsPayloads == {fundamentals_from_info(InfoStrong)}

FrameHistoryTickers == {"MSFT"}

NextFrame ==
    \/ \E t \in RawTickers : GetStockPrices(t)
    \/ \E t \in FundamentalsTickers : GetFundamentals(t)
    \/ \E t \in RawTickers, d \in FramePricePayloads : SaveStockPrices(t, d)
    \/ \E t \in FundamentalsTickers, d \in FrameFundamentalsPayloads : SaveFundamentals(t, d)
    \/ \E t \in RawTickers : DeleteStockPrices(t)
    \/ \E t \in FundamentalsTickers : DeleteFundamentals(t)
    \/ \E t \in FrameHistoryTickers, d \in HistoryPayloads :
          Len(analysis_results) < MaxHistory /\ SaveAnalysisResult(t, d)
    \/ Tick

SpecFrame == InitCache /\ [][NextFrame]_vars

(***************************************************************************)
(* The pipeline of one ticker together with the calls on the database that *)
(* other parts of the program make on the same file.                       *)
(***************************************************************************)
LogTickers == {"aapl"}

LogInfos == InfoOutcomesOf({InfoStrong})

LogPricePayloads == {cache_data(DataFrame("downtrend", "DatetimeIndex", "str"), "1d")}

LogFundamentalsPayloads == {fundamentals_from_info(InfoConcerning)}

NextLog ==
    \/ \E h \in PipelineHistories, i \in LogInfos : Analyze(h, i)
    \/ ClearCache
    \/ \E t \in LogTickers : GetStockPrices(t)
    \/ \E t \in LogTickers : GetFundamentals(t)
    \/ \E t \in LogTickers, d \in LogPricePayloads : SaveStockPrices(t, d)
    \/ \E t \in LogTickers, d \in LogFundamentalsPayloads : SaveFundamentals(t, d)
    \/ \E t \in LogTickers : DeleteStockPrices(t)
    \/ \E t \in LogTickers : DeleteFundamentals(t)
    \/ ClearAllCache
    \/ GetCacheStats

SpecLog == Init /\ [][NextLog]_vars

(***************************************************************************)
(* Several processes on one database file.  Every statement runs in its    *)
(* own connection and commits by itself; get_stock_prices is two of them:  *)
(* the SELECT on its connection, and the DELETE that delete_stock_prices   *)
(* issues on a connection of its own when the row read has expired.        *)
(***************************************************************************)
ConcurrentTickers == {"aapl", "MSFT"}

ConcurrentPayloads == {cache_data(DataFrame("uptrend", "DatetimeIndex", "str"), "1y")}

\* get_stock_prices up to its return or to the call of delete_stock_prices:
\* the SELECT, fetchone and the expiry test.  A row that is live, or no row,
\* ends the call; an expired row leaves the process before the delete.
SelectStockPrices(p, ticker) ==
    LET result == FetchOne(Select(stock_prices, Upper(ticker))) IN
    /\ connections[p].pc = "idle"
    /\ args' = [NoArgs EXCEPT !.op = "get_stock_prices", !.ticker = ticker]
    /\ IF result # PyNone /\ ~_is_expired(result.expiry_date)
       THEN /\ ret' = [raised |-> json_loads(result.data).raised,
                       value |-> json_loads(result.data).value]
            /\ UNCHANGED connections
       ELSE /\ ret' = [raised |-> "", value |-> PyNone]
            /\ connections' = IF result # PyNone
                              THEN [connections EXCEPT ![p] =
                                       [pc |-> "expired", ticker |-> ticker,
                                        result |-> result]]
                              ELSE connections
    /\ UNCHANGED <<now, stock_prices, fundamentals, analysis_results, analyzer>>

\* self.delete_stock_prices(ticker); return None
DeleteExpired(p) ==
    /\ connections[p].pc = "expired"
    /\ connections' = [connections EXCEPT ![p] = NoCall[p]]
    /\ stock_prices' = delete_stock_prices(stock_prices, connections[p].ticker)
    /\ args' = [NoArgs EXCEPT !.op = "get_stock_prices", !.ticker = connections[p].ticker]
    /\ ret' = [raised |-> "", value |-> PyNone]
    /\ UNCHANGED <<now, fundamentals, analysis_results, analyzer>>

\* a process that is not inside a call
SomeIdle == \E p \in Pipelines : connections[p].pc = "idle"

NextConcurrent ==
    \/ \E p \in Pipelines, t \in ConcurrentTickers : SelectStockPrices(p, t)
    \/ \E p \in Pipelines : DeleteExpired(p)
    \/ \E t \in ConcurrentTickers, d \in ConcurrentPayloads :
          SomeIdle /\ SaveStockPrices(t, d)
    \/ \E t \in ConcurrentTickers : SomeIdle /\ DeleteStockPrices(t)
    \/ Tick

SpecConcurrent == InitCache /\ [][NextConcurrent]_vars

(***************************************************************************)
(* The technical analyses as calls on a TechnicalAnalyzer.  The frame of   *)
(* the analyzer is given by the values the analyses read of it: one group  *)
(* of values varies at a time over those of a series of 250 bars.          *)
(***************************************************************************)
BaseBars == Bars("uptrend")

\* levels of a price or of a moving average
Levels == {90, 100, 110}

\* lengths around the windows of 50 and 200 bars, and the averages and the
\* close in every order
TrendBars ==
    {[BaseBars EXCEPT !.n = n, !.rsi_count = IF n > 14 THEN n - 14 ELSE 0] :
        n \in {1, 49, 50, 199}}
    \cup {[BaseBars EXCEPT !.n = n, !.close = c, !.sma_50 = s50, !.sma_200 = s200] :
            n \in {200, 250}, c \in Levels, s50 \in Levels, s200 \in Levels}

\* average gains and losses that give an RSI of 0, 25, 30, 35, 40, 50, 60, 65,
\* 70, 75 and 100, and an average loss of 0; rsi_count is 0 when every window
\* of the series is without a loss
MomentumBars ==
    {[BaseBars EXCEPT !.n = n, !.rsi_count = 0] : n \in {1, 14}}
    \cup {[BaseBars EXCEPT !.avg_gain = g[1], !.avg_loss = g[2]] :
            g \in {<<0, 5>>, <<1, 3>>, <<3, 7>>, <<7, 13>>, <<2, 3>>, <<1, 1>>, <<3, 2>>,
                   <<13, 7>>, <<7, 3>>, <<3, 1>>}}
    \cup {[BaseBars EXCEPT !.avg_gain = g, !.avg_loss = 0, !.rsi_count = c] :
            g \in {0, 5}, c \in {0, 40}}

\* the MACD below, on and above its signal line on the last two bars
MacdBars ==
    {[BaseBars EXCEPT !.n = 1]}
    \cup {[BaseBars EXCEPT !.n = n, !.prev_macd = pm, !.prev_signal = 2,
                           !.macd = m, !.signal = 2] :
            n \in {2, 250}, pm \in {1, 2, 3}, m \in {1, 2, 3}}

\* the close below, on, between, on and above the Bollinger bands
BollingerBars ==
    {[BaseBars EXCEPT !.n = n] : n \in {19, 20}}
    \cup {[BaseBars EXCEPT !.close = c] : c \in {80, 90, 100, 130, 140}}

\* the last volume against the average of 20 bars
VolumeBars ==
    {[BaseBars EXCEPT !.has_volume = FALSE], [BaseBars EXCEPT !.n = 19]}
    \cup {[BaseBars EXCEPT !.volume = v, !.avg_volume = a] :
            v \in {0, 50, 100, 200, 300, 400}, a \in {0, 200}}

TechnicalBars == TrendBars \cup MomentumBars \cup MacdBars \cup BollingerBars \cup VolumeBars

\* TechnicalAnalyzer(data) for a frame with the values bars
TechnicalAnalyzerOf(bars) ==
    [data |-> DataFrame("bars", "DatetimeIndex", "str"), bars |-> bars]

TechnicalCall(op, bars) == [NoArgs EXCEPT !.op = op, !.data = bars]

\* the analyses return (signals, score)
Returned(r) == [raised |-> "", value |-> [signals |-> r.signals, score |-> r.score]]

UnchangedStore ==
    UNCHANGED <<now, stock_prices, fundamentals, analysis_results, analyzer, connections>>

AnalyzeTrend(bars) ==
    /\ args' = TechnicalCall("analyze_trend", bars)
    /\ ret' = Returned(analyze_trend(TechnicalAnalyzerOf(bars)))
    /\ UnchangedStore

AnalyzeMomentum(bars) ==
    /\ args' = TechnicalCall("analyze_momentum", bars)
    /\ ret' = Returned(analyze_momentum(TechnicalAnalyzerOf(bars)))
    /\ UnchangedStore

AnalyzeMacdSignal(bars) ==
    /\ args' = TechnicalCall("analyze_macd_signal", bars)
    /\ ret' = Returned(analyze_macd_signal(TechnicalAnalyzerOf(bars)))
    /\ UnchangedStore

AnalyzeBollinger(bars) ==
    /\ args' = TechnicalCall("analyze_bollinger", bars)
    /\ ret' = Returned(analyze_bollinger(TechnicalAnalyzerOf(bars)))
    /\ UnchangedStore

AnalyzeVolume(bars) ==
    /\ args' = TechnicalCall("analyze_volume", bars)
    /\ ret' = Returned(analyze_volume(TechnicalAnalyzerOf(bars)))
    /\ UnchangedStore

FullTechnicalAnalysis(bars) ==
    /\ args' = TechnicalCall("full_technical_analysis", bars)
    /\ ret' = Returned(full_technical_analysis(TechnicalAnalyzerOf(bars)))
    /\ UnchangedStore

NextTechnical ==
    \E bars \in TechnicalBars :
        \/ AnalyzeTrend(bars)
        \/ AnalyzeMomentum(bars)
        \/ AnalyzeMacdSignal(bars)
        \/ AnalyzeBollinger(bars)
        \/ AnalyzeVolume(bars)
        \/ FullTechnicalAnalysis(bars)

SpecTechnical == InitCache /\ [][NextTechnical]_vars

(***************************************************************************)
(* Claims about the cache store (checked under SpecCache).                 *)
(***************************************************************************)
LiveEntries(table, ticker) ==
    {e \in table : e.ticker = Upper(ticker) /\ ~(now > e.expiry_date)}

StaleEntries(table, ticker) ==
    {e \in table : e.ticker = Upper(ticker) /\ now > e.expiry_date}

GetContract(table, tableAfter, ticker, r) ==
    /\ r.raised = ""
    /\ LiveEntries(table, ticker) # {} =>
          /\ \E e \in LiveEntries(table, ticker) : r.value = json_loads(e.data).value
          /\ r.value # PyNone
          /\ tableAfter = table
    /\ LiveEntries(table, ticker) = {} =>
          /\ r.value = PyNone
          /\ \A e \in tableAfter : e.ticker # Upper(ticker)
          /\ \A e \in table : e.ticker # Upper(ticker) => e \in tableAfter

\* C1: a get returns the stored payload if and only if the key has an entry
\* that is not past its expiry; an entry past its expiry is deleted by the get
\* and a miss is returned, so an expired payload is never returned.
C1_GetReturnsLiveEntryOnly ==
    [][/\ args'.op = "get_stock_prices" =>
              GetContract(stock_prices, stock_prices', args'.ticker, ret')
       /\ args'.op = "get_fundamentals" =>
              GetContract(fundamentals, fundamentals', args'.ticker, ret')]_vars

C1_Witness ==
    /\ args.op = "get_stock_prices"
    /\ args.found = "live"
    /\ now > 0
    /\ ret.value \in PricePayloads

C3_ExpiredGetLowersCountByOne ==
    [][/\ (args'.op = "get_stock_prices" /\ args'.found = "expired") =>
              /\ ret'.raised = "" /\ ret'.value = PyNone
              /\ get_cache_stats'.stock_prices = get_cache_stats.stock_prices - 1
              /\ get_cache_stats'.fundamentals = get_cache_stats.fundamentals
              /\ get_cache_stats'.analysis_results = get_cache_stats.analysis_results
       /\ (args'.op = "get_fundamentals" /\ args'.found = "expired") =>
              /\ ret'.raised = "" /\ ret'.value = PyNone
              /\ get_cache_stats'.fundamentals = get_cache_stats.fundamentals - 1
              /\ get_cache_stats'.stock_prices = get_cache_stats.stock_prices
              /\ get_cache_stats'.analysis_results = get_cache_stats.analysis_results]_vars

C3_Witness ==
    /\ args.op = "get_stock_prices"
    /\ args.ticker = "aapl"
    /\ args.found = "expired"
    /\ ret.value = PyNone
    /\ stock_prices # {}
    /\ fundamentals # {}

UniqueKeys(table) == \A r1, r2 \in table : r1.ticker = r2.ticker => r1 = r2

PutContract(table, a) ==
    {e \in table : e.ticker = Upper(a.ticker)} =
        {[ticker |-> Upper(a.ticker), data |-> json_dumps(a.data).text,
          expiry_date |-> now + 1 * TicksPerDay]}

\* C4: the cache holds at most one entry per (ticker, category) key; a put on a
\* key replaces the payload and sets the expiry to the time of the put plus the
\* ttl of one day, and never creates a second entry for the key.
C4_OneEntryPerKey ==
    /\ UniqueKeys(stock_prices)
    /\ UniqueKeys(fundamentals)
    /\ (args.op = "save_stock_prices" /\ ret.raised = "") => PutContract(stock_prices, args)
    /\ (args.op = "save_fundamentals" /\ ret.raised = "") => PutContract(fundamentals, args)

C4_Witness ==
    /\ args.op = "save_stock_prices"
    /\ args.found = "live"
    /\ ret.raised = ""
    /\ now > 0
    /\ \E e \in stock_prices : e.ticker = "MSFT"
    /\ \E e \in stock_prices : e.ticker = "AAPL" /\ e.expiry_date = now + 1 * TicksPerDay

(***************************************************************************)
(* Claims about malformed cache entries (checked under SpecFault).         *)
(***************************************************************************)
\* the key has an entry that has not expired and whose payload is not JSON
MalformedLive(table, ticker) ==
    \E r \in table : r.ticker = Upper(ticker) /\ ~(now > r.expiry_date) /\ ~r.data.wf

\* C5: a get of a key whose non-expired entry holds a payload that cannot be
\* deserialized behaves as a miss: it returns nothing and raises nothing, and a
\* read-through fetch that meets such an entry raises nothing to its caller.
C5_MalformedEntryIsAMiss ==
    [][/\ (args'.op = "get_stock_prices" /\ MalformedLive(stock_prices, args'.ticker))
            => ret' = [raised |-> "", value |-> PyNone]
       /\ (args'.op = "get_fundamentals" /\ MalformedLive(fundamentals, args'.ticker))
            => ret' = [raised |-> "", value |-> PyNone]
       /\ (args'.op = "fetch_all_data" /\ MalformedLive(stock_prices, args'.ticker))
            => ret'.raised = ""]_vars

(***************************************************************************)
(* Claims about the analysis (checked under SpecAnalysis and Spec).  Scores *)
(* are in half points: -6 is the score -3, -12 the score -6.               *)
(***************************************************************************)
\* analyze has returned a successful result
Succeeded == args.op = "analyze" /\ ret.raised = "" /\ ret.value.success

\* C6: in a successful result technical scoring is performed exactly when the
\* fundamental score is at least -3; then the technical score and signals are
\* those of the technical analysis and the final score is the sum of the two
\* scores; otherwise the technical score is absent, the technical signals are
\* empty and the final score is the fundamental score.
C6_TechnicalScoringGate ==
    Succeeded =>
        LET v == ret.value
            tech == full_technical_analysis(TechnicalAnalyzer(analyzer.historical_data))
        IN  IF v.fundamental_score >= -6
            THEN /\ v.technical_score = [py |-> "float", half |-> tech.score]
                 /\ v.technical_signals = tech.signals
                 /\ v.final_score = v.fundamental_score + tech.score
            ELSE /\ v.technical_score = PyNone
                 /\ v.technical_signals = << >>
                 /\ v.final_score = v.fundamental_score

\* a successful result whose fundamental score is exactly -3, with a technical
\* score that changes the final score
C6_Witness ==
    /\ Succeeded
    /\ ret.value.fundamental_score = -6
    /\ ret.value.technical_score # PyNone
    /\ ret.value.final_score # ret.value.fundamental_score

\* C7: a successful result whose fundamental score is below -6 recommends a
\* Strong Sell with the horizon Immediate, whatever the technical score is.
C7_CatastrophicIsStrongSellImmediate ==
    (Succeeded /\ ret.value.fundamental_score < -12)
        => /\ ret.value.recommendation = "VENTE FORTE"
           /\ ret.value.time_horizon = "Immediat"

\* C8: with a fundamental score of at least -6 the recommendation and horizon are
\* those of the first band, in this order, that the final score reaches: 8 Strong
\* Buy, 5 Buy, 2 Light Buy, -2 Hold, -5 Light Sell, otherwise Sell.
C8_FirstMatchingBand ==
    (Succeeded /\ ret.value.fundamental_score >= -12)
        => <<ret.value.recommendation, ret.value.time_horizon>> =
              LET final == ret.value.final_score IN
              IF final >= 16 THEN <<"ACHAT FORT", "Moyen/Long terme">>
              ELSE IF final >= 10 THEN <<"ACHAT", "Moyen terme">>
              ELSE IF final >= 4 THEN <<"ACHAT LEGER", "Court/Moyen terme">>
              ELSE IF final >= -4 THEN <<"CONSERVER", "Surveillance">>
              ELSE IF final >= -10 THEN <<"VENTE LEGERE", "Court terme">>
              ELSE <<"VENTE", "Immediat">>

\* a Buy at the lower end of its band
C8_Witness ==
    /\ Succeeded
    /\ ret.value.fundamental_score >= -12
    /\ ret.value.final_score = 10
    /\ ret.value.recommendation = "ACHAT"

\* the scores the scorers give to the companies and the price series
FundamentalScores ==
    {full_fundamental_analysis(fund_analyzer).score :
        fund_analyzer \in {FundamentalAnalyzer(fundamentals_from_info(i),
                                               InfoGet(i, "sector", PyNone),
                                               InfoGet(i, "industry", PyNone),
                                               InfoGet(i, "country", PyNone)) :
                              i \in AnalysedInfos}}

TechnicalScores ==
    {full_technical_analysis(tech_analyzer).score :
        tech_analyzer \in {TechnicalAnalyzer(DataFrame(s, "DatetimeIndex", "str")) :
                              s \in SeriesIds}}

\* C9 as stated: the final score alone decides the recommendation, so no other
\* analysis with the same final score gets another recommendation.
C9_FinalScoreDecidesRecommendation ==
    Succeeded =>
        \A fund \in FundamentalScores, tech \in TechnicalScores :
            LET final == IF fund >= -6 THEN fund + tech ELSE fund IN
            final = ret.value.final_score
                => _generate_recommendation(final, fund)[1] = ret.value.recommendation

\* C9 amended: with a fundamental score of at least -6 each of the six
\* recommendations from Strong Buy to Sell is the image of one interval of the
\* final score, and the six intervals cover the line without overlap; below -6 the
\* recommendation is Strong Sell and the final score is the fundamental score.
C9_SixBandsPartitionTheLine ==
    Succeeded =>
        LET rec == ret.value.recommendation
            final == ret.value.final_score
        IN  IF ret.value.fundamental_score < -12
            THEN rec = "VENTE FORTE" /\ final = ret.value.fundamental_score
            ELSE /\ rec = "ACHAT FORT" <=> 16 <= final
                 /\ rec = "ACHAT" <=> (10 <= final /\ final < 16)
                 /\ rec = "ACHAT LEGER" <=> (4 <= final /\ final < 10)
                 /\ rec = "CONSERVER" <=> (-4 <= final /\ final < 4)
                 /\ rec = "VENTE LEGERE" <=> (-10 <= final /\ final < -4)
                 /\ rec = "VENTE" <=> final < -10

\* a Hold at the lower end of its interval
C9_Witness ==
    /\ Succeeded
    /\ ret.value.fundamental_score >= -12
    /\ ret.value.final_score = -4
    /\ ret.value.recommendation = "CONSERVER"

\* the analyzer's last fetch of the price series or of the fundamentals failed
FetchFailed(a) == a.historical_data = PyNone \/ a.fundamentals = EmptyDict

\* C10: when the fetch of the price series or of the fundamentals failed, analyze
\* returns a failure with a reason and appends nothing to the history.
C10_FailedFetchFailsAnalysis ==
    [][(args'.op = "analyze" /\ ret'.raised = "" /\ FetchFailed(analyzer'))
          => /\ ret'.value = [success |-> FALSE,
                              error |-> "Unable to fetch data for analysis"]
             /\ analysis_results' = analysis_results]_vars

(***************************************************************************)
(* Claims about the history (checked under Spec and SpecHistory).          *)
(***************************************************************************)
\* C11: an analyze call that returns a successful result has appended exactly
\* one row to analysis_results, after the rows that were there, and the row
\* holds the ticker, the recommendation and the final score of the result it
\* returns.
C11_SuccessAppendsOneRecord ==
    [][(args'.op = "analyze" /\ ret'.raised = "" /\ ret'.value.success)
          => /\ Len(analysis_results') = Len(analysis_results) + 1
             /\ SubSeq(analysis_results', 1, Len(analysis_results)) = analysis_results
             /\ LET row == analysis_results'[Len(analysis_results')] IN
                /\ row.ticker = ret'.value.ticker
                /\ row.recommendation = ret'.value.recommendation
                /\ row.score = ret'.value.final_score]_vars

\* analyze has returned a successful result and its row is the last of the table
C11_Witness ==
    /\ args.op = "analyze" /\ ret.raised = "" /\ ret.value.success
    /\ Len(analysis_results) >= 1
    /\ analysis_results[Len(analysis_results)].recommendation = ret.value.recommendation
    /\ analysis_results[Len(analysis_results)].ticker = "AAPL"

\* C12: get_analysis_history(ticker, limit) returns rows of that ticker only, at
\* most limit of them, the row appended later before the row appended earlier,
\* and no row of the ticker that is left out was appended after a returned one.
C12_MostRecentFirst ==
    args.op = "get_analysis_history" =>
        LET ids == args.found IN
        /\ \A j \in DOMAIN ids : analysis_results[ids[j]].ticker = Upper(args.ticker)
        /\ Len(ids) <= args.limit
        /\ Len(ret.value) = Len(ids)
        /\ \A j, k \in DOMAIN ids : j < k => ids[j] > ids[k]
        /\ \A m \in 1..Len(analysis_results) :
              (analysis_results[m].ticker = Upper(args.ticker)
               /\ \A j \in DOMAIN ids : ids[j] # m)
                  => \A j \in DOMAIN ids : m < ids[j]

\* C13: no operation (analyze, fetch, cache save/get/delete, clear_all_cache,
\* clear_cache, get_cache_stats) removes or changes a row of the history: the
\* history before a step is a prefix of the history after it, and the count
\* get_cache_stats reports is the length of the history, which never falls.
C13_HistoryIsInsertOnly ==
    [][/\ Len(analysis_results') >= Len(analysis_results)
       /\ SubSeq(analysis_results', 1, Len(analysis_results)) = analysis_results
       /\ args'.op = "get_cache_stats"
             => ret'.value.analysis_results = Len(analysis_results')]_vars

C13_Witness ==
    /\ args.op = "clear_all_cache"
    /\ Len(analysis_results) >= 1
    /\ stock_prices = {} /\ fundamentals = {}

(* Claims about concurrent processes (checked under SpecConcurrent). *)
\* C14: when a get_stock_prices that read an expired row of a key purges it,
\* every row of that key that is in the table and is not the row it read (a row
\* a concurrent save wrote after the read) is still in the table, and so is
\* every row of every other key.
C14_PurgeSparesLaterPut ==
    [][\A p \in Pipelines :
          (connections[p].pc = "expired" /\ connections'[p].pc = "idle")
             => \A e \in stock_prices :
                   (e.ticker # Upper(connections[p].ticker) \/ e # connections[p].result)
                      => e \in stock_prices']_vars

(* Claims about fundamental scoring (checked under SpecFundamental). *)
\* the deltas of a list of signals, in order
Deltas(signals) == [j \in DOMAIN signals |-> signals[j].delta]

Analysed == args.op = "analyze"

\* C15: the analysis of a company whose sector is not a key of the benchmarks
\* (None, empty, 'N/A', missing or an unknown name) raises nothing, and its
\* fundamental score and the deltas of its fundamental signals are those of the
\* same fundamentals and country analysed with the sector 'Technology'.
C15_UnknownSectorIsTechnology ==
    (Analysed /\ (analyzer.sector.py # "str" \/ analyzer.sector.s \notin DOMAIN get_benchmarks))
        => /\ ret.raised = ""
           /\ ret.value.success
           /\ LET tech == CHOOSE r \in
                      {full_fundamental_analysis(fa) :
                          fa \in {FundamentalAnalyzer(analyzer.fundamentals, Str("Technology"),
                                                      analyzer.industry, analyzer.country)}} :
                      TRUE
              IN  /\ ret.value.fundamental_score = tech.score
                  /\ Deltas(ret.value.fundamental_signals) = Deltas(tech.signals)

\* an unknown sector name analysed for a company outside the United States
\* whose rules fire
C15_Witness ==
    /\ Analysed /\ ret.raised = "" /\ ret.value.success
    /\ analyzer.sector = Str("Biotech")
    /\ analyzer.country = Str("France")
    /\ Len(ret.value.fundamental_signals) > 5

\* the zones of the classification table
GeographicZones == {"United States", "Europe", "China", "Japan", "Emerging Markets"}

\* the zone the analysis reports in its signal "Pays: country (zone)"
ReportedZones ==
    {z \in GeographicZones :
        \E c \in ClassifiedCountries \cup {"Unknown", "Atlantis"} :
            ret.value.fundamental_signals[2].desc = "Pays: " \o c \o " (" \o z \o ")"}

\* C16: whatever the country is (None, empty, 'N/A', missing, unknown or known),
\* the analysis resolves it to exactly one of the five zones, which has an entry
\* in the geographic adjustments; a country that the classification table does
\* not name resolves to the zone 'United States'.
C16_CountryHasOneZone ==
    Analysed =>
        /\ ret.raised = "" /\ ret.value.success
        /\ Cardinality(ReportedZones) = 1
        /\ ReportedZones \subseteq DOMAIN get_geographic_adjustments
        /\ (analyzer.country.py # "str" \/ analyzer.country.s \notin ClassifiedCountries)
              => ReportedZones = {"United States"}

C16_Witness ==
    /\ Analysed /\ ret.raised = "" /\ ret.value.success
    /\ analyzer.country = Str("Atlantis")
    /\ ReportedZones = {"United States"}

(* Claims about empty provider results (checked under SpecEmpty). *)
\* the snapshot fetch_fundamentals builds of an info dictionary without entries
EmptySnapshot == fundamentals_from_info(EmptyDict)

\* C17: a fetch that gets an empty price series, or that gets an empty
\* fundamental snapshot from the provider (the key has no live cache entry),
\* writes no row to the cache table of that key and fails, and an analysis that
\* made such a fetch fails.
C17_EmptyResultIsAFailure ==
    [][/\ (args'.op \in {"fetch_all_data", "analyze"} /\ ret'.raised = ""
           /\ analyzer.historical_data = PyNone /\ analyzer'.historical_data = PyNone)
             => /\ stock_prices' \subseteq stock_prices
                /\ IF args'.op = "analyze" THEN ~ret'.value.success
                                           ELSE ret'.value = PyBool(FALSE)
       /\ (args'.op \in {"fetch_all_data", "analyze"} /\ ret'.raised = ""
           /\ analyzer.fundamentals = PyNone /\ analyzer'.fundamentals = EmptySnapshot
           /\ LiveEntries(fundamentals, args'.ticker) = {})
             => /\ fundamentals' \subseteq fundamentals
                /\ IF args'.op = "analyze" THEN ~ret'.value.success
                                           ELSE ret'.value = PyBool(FALSE)]_vars

\* the signals of the debt-to-equity rule
DebtSignals == {"Dette - Tres solide", "Dette - Modere", "Dette - Eleve", "Dette - Tres eleve"}

\* the signals of a result whose description is one of descs
SignalsOf(v, descs) ==
    {j \in DOMAIN v.fundamental_signals : v.fundamental_signals[j].desc \in descs}

\* C18: when debt-to-equity is a number (0 included), the analysis emits exactly
\* one debt signal, that of the band of the value against the sector thresholds
\* times the debt factor of the zone: +2, 0, -1 or -3 times the debt weight for
\* below low, below moderate, below high and otherwise.
C18_DebtRuleBands ==
    (Analysed /\ ret.raised = "" /\ ret.value.success
     /\ DictGet(analyzer.fundamentals, "Debt_to_Equity").py = "num")
        => LET v == ret.value
               dte == DictGet(analyzer.fundamentals, "Debt_to_Equity").n * 100
               sector == IF analyzer.sector.py = "str"
                            /\ analyzer.sector.s \in DOMAIN get_benchmarks
                         THEN analyzer.sector.s ELSE "Technology"
               b == get_benchmarks[sector]
               zone == CHOOSE z \in ReportedZones : TRUE
               f == get_geographic_adjustments[zone].debt_factor
               band == IF dte < b.debt_low * f THEN <<"Dette - Tres solide", 2>>
                       ELSE IF dte < b.debt_moderate * f THEN <<"Dette - Modere", 0>>
                       ELSE IF dte < b.debt_high * f THEN <<"Dette - Eleve", -1>>
                       ELSE <<"Dette - Tres eleve", -3>>
           IN  /\ Cardinality(SignalsOf(v, DebtSignals)) = 1
               /\ \A j \in SignalsOf(v, DebtSignals) :
                     /\ v.fundamental_signals[j].desc = band[1]
                     /\ v.fundamental_signals[j].delta = band[2] * b.weights.debt

\* the rules of the fundamental analysis: the metric a rule reads and the
\* descriptions of the signals it emits
FundamentalRules ==
    {[metric |-> "PE_Ratio",
      descs |-> {"P/E - Sous-evaluation", "P/E - Correct", "P/E - Survalorisation"}],
     [metric |-> "PEG_Ratio",
      descs |-> {"PEG - Croissance attractive", "PEG - Croissance chere"}],
     [metric |-> "Debt_to_Equity", descs |-> DebtSignals],
     [metric |-> "Current_Ratio",
      descs |-> {"Liquidite excellente", "Liquidite preoccupante"}],
     [metric |-> "ROE", descs |-> {"ROE - Excellence", "ROE - Bon", "ROE - Faible"}],
     [metric |-> "Profit_Margin",
      descs |-> {"Marge - Excellente", "Marge - Correcte", "Marge - Tres faible"}],
     [metric |-> "Revenue_Growth",
      descs |-> {"Croissance - Forte", "Croissance - Positive",
                 "Decroissance - Problematique"}],
     [metric |-> "Free_Cash_Flow",
      descs |-> {"Cash-flow libre excellent", "Cash-flow libre bon",
                 "Cash-flow libre NEGATIF"}],
     [metric |-> "Market_Cap",
      descs |-> {"Cash-flow libre excellent", "Cash-flow libre bon"}]}

RECURSIVE DeltaSum(_)
\* the sum of the deltas of a list of signals
DeltaSum(signals) ==
    IF signals = << >> THEN 0
    ELSE signals[1].delta + DeltaSum(Tail(signals))

\* C19: the analysis of every snapshot, with metrics that are missing, None,
\* text or zero and with a market cap of zero, raises nothing and succeeds; a
\* rule whose metric is missing or is not a number emits no signal, and the
\* fundamental score is the sum of the deltas of the signals emitted, so such a
\* rule adds nothing to it.
C19_AbsentMetricsAreSkipped ==
    Analysed =>
        /\ ret.raised = "" /\ ret.value.success
        /\ \A rule \in FundamentalRules :
              DictGet(analyzer.fundamentals, rule.metric).py # "num"
                 => SignalsOf(ret.value, rule.descs) = {}
        /\ ret.value.fundamental_score = DeltaSum(ret.value.fundamental_signals)

\* a debt-to-equity that is text beside metrics whose rules fire
C19_Witness ==
    /\ Analysed /\ ret.raised = "" /\ ret.value.success
    /\ DictGet(analyzer.fundamentals, "Debt_to_Equity") = Str("Infinity")
    /\ DictGet(analyzer.fundamentals, "PE_Ratio").py = "num"
    /\ Len(ret.value.fundamental_signals) > 5
    /\ ret.value.fundamental_score # 0

\* the signals of the free cash flow rule
CashFlowSignals ==
    {"Cash-flow libre excellent", "Cash-flow libre bon", "Cash-flow libre NEGATIF"}

\* C20: a negative free cash flow gives exactly one cash-flow signal, negative
\* and of delta -2 whatever the weights of the sector are; a positive free cash
\* flow gives one signal of +2 when the market cap is a positive number and
\* FCF / market cap is above 8%, one of +1 when it is above 5%, and no cash-flow
\* signal otherwise (also when the market cap is missing, zero or negative).
C20_FreeCashFlowRule ==
    (Analysed /\ ret.raised = "" /\ ret.value.success
     /\ DictGet(analyzer.fundamentals, "Free_Cash_Flow").py = "num")
        => LET v == ret.value
               fcf == DictGet(analyzer.fundamentals, "Free_Cash_Flow").n
               cap == DictGet(analyzer.fundamentals, "Market_Cap")
               yield_above(pct) == cap.py = "num" /\ cap.n > 0 /\ fcf * 100 > pct * cap.n
               expected ==
                   IF fcf < 0 THEN {Signal("Cash-flow libre NEGATIF", -4, "Negatif")}
                   ELSE IF fcf > 0 /\ yield_above(8)
                   THEN {Signal("Cash-flow libre excellent", 4, "Positif")}
                   ELSE IF fcf > 0 /\ yield_above(5)
                   THEN {Signal("Cash-flow libre bon", 2, "Positif")}
                   ELSE {}
           IN  /\ {v.fundamental_signals[j] : j \in SignalsOf(v, CashFlowSignals)} = expected
               /\ Cardinality(SignalsOf(v, CashFlowSignals)) = Cardinality(expected)

(***************************************************************************)
(* Claims about the technical analyses (checked under SpecTechnical).      *)
(* Scores and deltas are in half points: 4 is the score 2, 2 the score 1.  *)
(***************************************************************************)
\* C21: analyze_trend of a series of fewer than 200 bars returns one neutral
\* signal of delta 0 and the score 0; of a longer series it returns first the
\* Golden Cross (+2, bullish) when SMA50 > SMA200 and the Death Cross (-2,
\* bearish) otherwise, equality included, then one signal of +1 exactly when
\* close > SMA50 > SMA200, one of -1 exactly when close < SMA50 < SMA200 and no
\* other signal; the score is the sum, one of -3, -2, 0, 2, 3.
C21_TrendSignals ==
    args.op = "analyze_trend" =>
        LET b == args.data
            s == ret.value.signals
        IN  /\ ret.raised = ""
            /\ ret.value.score \in {-6, -4, 0, 4, 6}
            /\ IF b.n < 200
               THEN /\ Len(s) = 1
                    /\ s[1].delta = 0 /\ s[1].sentiment = "Neutre"
                    /\ s[1].desc = "Donnees insuffisantes pour l'analyse de tendance"
                    /\ ret.value.score = 0
               ELSE /\ s[1] = IF b.sma_50 > b.sma_200
                              THEN Signal("Golden Cross detecte (SMA50 > SMA200)", 4, "Haussier")
                              ELSE Signal("Death Cross detecte (SMA50 < SMA200)", -4, "Baissier")
                    /\ IF b.close > b.sma_50 /\ b.sma_50 > b.sma_200
                       THEN Len(s) = 2 /\ s[2].delta = 2 /\ s[2].sentiment = "Haussier"
                                       /\ ret.value.score = 6
                       ELSE IF b.close < b.sma_50 /\ b.sma_50 < b.sma_200
                       THEN Len(s) = 2 /\ s[2].delta = -2 /\ s[2].sentiment = "Baissier"
                                       /\ ret.value.score = -6
                       ELSE Len(s) = 1 /\ ret.value.score = s[1].delta

\* equal averages on a series of 200 bars: the Death Cross alone
C21_Witness ==
    /\ args.op = "analyze_trend"
    /\ args.data.n = 200
    /\ args.data.sma_50 = args.data.sma_200
    /\ ret.value.score = -4
    /\ Len(ret.value.signals) = 1

\* the RSI of the last bar is defined: its window of 14 deltas is full and has a
\* loss
RsiDefined(b) == b.n >= 15 /\ b.avg_loss > 0 /\ b.rsi_count >= 1

\* C22: for a defined RSI, which is 100 * gain / (gain + loss), analyze_momentum
\* returns exactly one signal: bullish +2 when the RSI is below 30, bearish -2
\* when it is above 70, and neutral 0 for every RSI from 30 to 70, both included.
C22_MomentumBands ==
    (args.op = "analyze_momentum" /\ RsiDefined(args.data)) =>
        LET g == args.data.avg_gain
            l == args.data.avg_loss
            s == ret.value.signals
        IN  /\ ret.raised = ""
            /\ Len(s) = 1
            /\ ret.value.score = s[1].delta
            /\ IF 100 * g < 30 * (g + l)
               THEN s[1].delta = 4 /\ s[1].sentiment = "Haussier"
               ELSE IF 100 * g > 70 * (g + l)
               THEN s[1].delta = -4 /\ s[1].sentiment = "Baissier"
               ELSE s[1].delta = 0 /\ s[1].sentiment = "Neutre"

\* an RSI of exactly 30: neutral
C22_Witness ==
    /\ args.op = "analyze_momentum" /\ RsiDefined(args.data)
    /\ args.data.avg_gain = 3 /\ args.data.avg_loss = 7
    /\ ret.value.score = 0
    /\ ret.value.signals[1].sentiment = "Neutre"

\* C23: when the average loss of the last 14 deltas is zero, analyze_momentum
\* raises nothing, returns no signal and returns the score 0.
C23_ZeroLossGivesNoSignal ==
    (args.op = "analyze_momentum" /\ args.data.n >= 15 /\ args.data.avg_loss = 0)
        => /\ ret.raised = ""
           /\ ret.value.signals = << >>
           /\ ret.value.score = 0

\* C24: for a series of two bars or more analyze_macd_signal returns exactly one
\* signal: the bullish crossover +2 when the MACD was below its signal line on
\* the bar before and is above it now, the bearish crossover -2 when it was
\* above and is below now, and without such a transition +1 when the MACD is
\* above the signal line and -1 in every other case.
C24_MacdOneSignal ==
    (args.op = "analyze_macd_signal" /\ args.data.n >= 2) =>
        LET b == args.data
            s == ret.value.signals
        IN  /\ ret.raised = ""
            /\ Len(s) = 1
            /\ ret.value.score = s[1].delta
            /\ s[1] = IF b.prev_macd < b.prev_signal /\ b.macd > b.signal
                      THEN Signal("MACD croisement haussier", 4, "Haussier")
                      ELSE IF b.prev_macd > b.prev_signal /\ b.macd < b.signal
                      THEN Signal("MACD croisement baissier", -4, "Baissier")
                      ELSE IF b.macd > b.signal
                      THEN Signal("MACD au-dessus du signal", 2, "Haussier")
                      ELSE Signal("MACD en-dessous du signal", -2, "Baissier")

\* the MACD was on its signal line and is above it now: no crossover, +1
C24_Witness ==
    /\ args.op = "analyze_macd_signal" /\ args.data.n >= 2
    /\ args.data.prev_macd = args.data.prev_signal
    /\ args.data.macd > args.data.signal
    /\ ret.value.score = 2
    /\ Len(ret.value.signals) = 1

\* C25: full_technical_analysis returns the sum of the scores of the trend,
\* momentum, MACD, Bollinger and volume analyses of the same frame, and their
\* signal lists one after the other in that order, also for a frame that is too
\* short for some of the indicators.
C25_TechnicalTotal ==
    args.op = "full_technical_analysis" =>
        LET a == TechnicalAnalyzerOf(args.data)
            trend == analyze_trend(a)
            momentum == analyze_momentum(a)
            macd == analyze_macd_signal(a)
            bollinger == analyze_bollinger(a)
            volume == analyze_volume(a)
        IN  /\ ret.raised = ""
            /\ ret.value.score = trend.score + momentum.score + macd.score
                                 + bollinger.score + volume.score
            /\ ret.value.signals = trend.signals \o momentum.signals \o macd.signals
                                   \o bollinger.signals \o volume.signals

\* a frame of 49 bars: too short for the trend, long enough for the others
C25_Witness ==
    /\ args.op = "full_technical_analysis"
    /\ args.data.n = 49
    /\ Len(ret.value.signals) = 5
    /\ ret.value.signals[1].desc = "Donnees insuffisantes pour l'analyse de tendance"
    /\ ret.value.signals[3].desc = "MACD croisement haussier"
    /\ ret.value.score # 0

(***************************************************************************)
(* Claims about the combination of the scores (checked under SpecAnalysis) *)
(***************************************************************************)
SellRecommendations == {"VENTE LEGERE", "VENTE", "VENTE FORTE"}

\* C26: a successful analysis that recommends a Strong Sell carries no
\* technical score and its final score is its fundamental score, below -6; an
\* analysis whose fundamental score is below -3 carries no technical score and
\* recommends a Light Sell, a Sell or a Strong Sell.
C26_GatedOutIsSell ==
    Succeeded =>
        LET v == ret.value
        IN  /\ v.recommendation = "VENTE FORTE" =>
                /\ v.technical_score = PyNone
                /\ v.technical_signals = << >>
                /\ v.final_score = v.fundamental_score
                /\ v.fundamental_score < -Pts(6)
            /\ v.fundamental_score < -Pts(3) =>
                /\ v.technical_score = PyNone
                /\ v.recommendation \in SellRecommendations
            /\ v.technical_score = PyNone => v.recommendation \in SellRecommendations

\* a Strong Sell has been recommended for a stock whose technical analysis
\* was left out
C26_Witness ==
    /\ Succeeded
    /\ ret.value.technical_score = PyNone
    /\ ret.value.fundamental_score < -Pts(6)
    /\ ret.value.final_score = ret.value.fundamental_score
    /\ ret.value.recommendation = "VENTE FORTE"

\* C27: in a successful analysis the fundamental score is the sum of the
\* deltas of the fundamental signals and the technical score, when there is
\* one, is the sum of the deltas of the technical signals.
C27_ScoreIsSumOfDeltas ==
    Succeeded =>
        /\ ret.value.fundamental_score = DeltaSum(ret.value.fundamental_signals)
        /\ ret.value.technical_score # PyNone =>
              ret.value.technical_score.half = DeltaSum(ret.value.technical_signals)

(***************************************************************************)
(* Claims about the keys of the cache (checked under SpecFrame)            *)
(***************************************************************************)
\* the entries of the other tickers are the same before and after
OtherKeysKept(table, tableAfter, ticker) ==
    {e \in table : e.ticker # Upper(ticker)} = {e \in tableAfter : e.ticker # Upper(ticker)}

\* what a call does to the entry of its own key, the upper-cased ticker
OwnKey(table, tableAfter, a, r) ==
    LET own == {e \in tableAfter : e.ticker = Upper(a.ticker)}
    IN  /\ \A e \in tableAfter : e.ticker = Upper(e.ticker)
        /\ a.op \in {"save_stock_prices", "save_fundamentals"} =>
              Cardinality(own) = 1 /\ \A e \in own : e.data = json_dumps(a.data).text
        /\ a.op \in {"delete_stock_prices", "delete_fundamentals"} => own = {}
        /\ a.op \in {"get_stock_prices", "get_fundamentals"} =>
              /\ a.found = "live" =>
                    /\ own = {e \in table : e.ticker = Upper(a.ticker)}
                    /\ \A e \in own : r.value = json_loads(e.data).value
              /\ a.found # "live" => own = {} /\ r.value = PyNone

\* C28: a save, a get or a delete of the prices of a ticker, given in any
\* letter case, acts on the entry of the upper-cased ticker in stock_prices and
\* leaves the entries of the other tickers, the fundamentals table and the
\* history as they were; likewise a call on the fundamentals of a ticker
\* leaves the other fundamentals, the prices table and the history.
C28_OwnKeyOnly ==
    [][/\ args'.op \in {"save_stock_prices", "get_stock_prices", "delete_stock_prices"} =>
              /\ OtherKeysKept(stock_prices, stock_prices', args'.ticker)
              /\ OwnKey(stock_prices, stock_prices', args', ret')
              /\ fundamentals' = fundamentals
              /\ analysis_results' = analysis_results
       /\ args'.op \in {"save_fundamentals", "get_fundamentals", "delete_fundamentals"} =>
              /\ OtherKeysKept(fundamentals, fundamentals', args'.ticker)
              /\ OwnKey(fundamentals, fundamentals', args', ret')
              /\ stock_prices' = stock_prices
              /\ analysis_results' = analysis_results]_vars

\* the expired prices of AAPL have been purged by a get of "aapl" while MSFT
\* has live prices, AAPL has fundamentals and the history has a record
C28_Witness ==
    /\ args.op = "get_stock_prices"
    /\ args.ticker = "aapl"
    /\ args.found = "expired"
    /\ \A e \in stock_prices : e.ticker # "AAPL"
    /\ \E e \in stock_prices : e.ticker = "MSFT" /\ e.expiry_date >= now
    /\ \E e \in fundamentals : e.ticker = "AAPL"
    /\ analysis_results # << >>

(***************************************************************************)
(* Claims about the read-through fetch (checked under SpecReadThrough)     *)
(***************************************************************************)
\* the entries of the analyzer's ticker that have not passed their expiry
ServedEntries(table) == {e \in table : e.ticker = analyzer.ticker /\ now <= e.expiry_date}

\* C29: while the prices of the analyzer's ticker have a live entry, a fetch
\* of any period leaves the table stock_prices as it is and gives the analyzer
\* the frame rebuilt from the cached records, whatever the provider would
\* answer; while its fundamentals have a live entry the table fundamentals is
\* left as it is and a fetch that comes to the fundamentals gives the analyzer
\* the cached metrics.
C29_LiveEntryIsServed ==
    [][args'.op = "fetch_all_data" =>
          /\ \A e \in ServedEntries(stock_prices) :
                /\ stock_prices' = stock_prices
                /\ ret'.raised = ""
                /\ analyzer'.historical_data =
                      from_records(json_loads(e.data).value.items.historical)
          /\ \A e \in ServedEntries(fundamentals) :
                /\ fundamentals' = fundamentals
                /\ analyzer'.historical_data # PyNone =>
                      /\ analyzer'.fundamentals = json_loads(e.data).value
                      /\ ret'.value = PyBool(TRUE)]_vars

\* a fetch of the period 1d has been served, at the time of its expiry, the
\* entry that a fetch of the period 1y had cached, and cached fundamentals
C29_Witness ==
    /\ args.op = "fetch_all_data"
    /\ args.data = Str("1d")
    /\ ret.value = PyBool(TRUE)
    /\ analyzer.historical_data.index = "to_datetime(RangeIndex)"
    /\ \E e \in stock_prices :
          /\ e.ticker = analyzer.ticker
          /\ e.expiry_date = now
          /\ json_loads(e.data).value.items.period = Str("1y")
    /\ \E e \in fundamentals :
          /\ e.ticker = analyzer.ticker
          /\ e.expiry_date = now
          /\ analyzer.fundamentals = json_loads(e.data).value

(***************************************************************************)
(* Claims about a cache write that raises (checked under SpecWriteFault)   *)
(***************************************************************************)
\* the provider answers with a frame of rows that json.dumps refuses
PriceWriteFails(h) == h.raised = "" /\ h.value # PyNone /\ ~df_empty(h.value)
                      /\ h.value.dates = "Timestamp"

\* the provider answers with an info dictionary that json.dumps refuses
FundamentalsWriteFails(i) ==
    i.raised = "" /\ \E k \in DOMAIN i.value.items : i.value.items[k].py = "int64"

NoEntry(table) == \A e \in table : e.ticker # analyzer.ticker

\* C30: a fetch that finds no live prices and whose write of the provider's
\* non-empty frame raises returns normally with failure, leaves no prices entry
\* and, inside analyze, makes the analysis fail without a history record; a
\* fetch that finds no live fundamentals and whose write of the provider's
\* metrics raises returns normally with these metrics and leaves no
\* fundamentals entry.
C30_FailedWriteStaysInside ==
    [][\A h \in PipelineHistories, i \in WriteFaultInfos :
          /\ (/\ args'.op = "fetch_all_data"
              /\ ServedEntries(stock_prices) = {}
              /\ PriceWriteFails(h)
              /\ FetchAllData("1y", h, i)) =>
                 /\ ret'.raised = ""
                 /\ ret'.value = PyBool(FALSE)
                 /\ analyzer'.historical_data = PyNone
                 /\ NoEntry(stock_prices')
          /\ (/\ args'.op = "analyze"
              /\ analyzer.historical_data = PyNone
              /\ ServedEntries(stock_prices) = {}
              /\ PriceWriteFails(h)
              /\ Analyze(h, i)) =>
                 /\ ret'.raised = ""
                 /\ ret'.value = FailedToFetch
                 /\ analysis_results' = analysis_results
                 /\ NoEntry(stock_prices')
          /\ (/\ args'.op = "fetch_all_data"
              /\ analyzer'.historical_data # PyNone
              /\ ServedEntries(fundamentals) = {}
              /\ FundamentalsWriteFails(i)
              /\ FetchAllData("1y", h, i)) =>
                 /\ ret'.raised = ""
                 /\ ret'.value = PyBool(TRUE)
                 /\ analyzer'.fundamentals = fundamentals_from_info(i.value)
                 /\ NoEntry(fundamentals')]_vars

\* a fetch has returned the provider's metrics, a numpy integer among them,
\* and has left prices in the cache but no fundamentals
C30_Witness ==
    /\ args.op = "fetch_all_data"
    /\ ret = [raised |-> "", value |-> PyBool(TRUE)]
    /\ analyzer.fundamentals = fundamentals_from_info(InfoNumpy)
    /\ ~NoEntry(stock_prices)
    /\ NoEntry(fundamentals)

====
